---------------------------- MODULE Spec2Model ----------------------------
(***************************************************************************)
(* Sales-Analytics server: the in-memory record store (server/storage.ts), *)
(* the background Excel ingestion job and the background geocoding pass    *)
(* (server routes), as a state machine of the Node event loop.             *)
(*                                                                         *)
(* Strings are sequences of one-character strings, so that trim() and the  *)
(* template literals of the source are computed and not assumed.           *)
(* A spreadsheet cell is a tagged value [t, v]: t = "num" (v an integer),  *)
(* t = "str" (v a string) ; an absent column is Undefined.                 *)
(***************************************************************************)
EXTENDS Integers, Sequences, FiniteSets, TLC

(***************************************************************************)
(* Bounds of the model.                                                    *)
(***************************************************************************)
MaxRequests == 2     \* requests served in one behaviour: uploads, clears and
                     \* coordinate updates together
PadRows == 500       \* trailing partial rows of a sheet of several chunks

(***************************************************************************)
(* Program constants.                                                      *)
(***************************************************************************)
ChunkMin == 500          \* Math.max(500, ...)
ChunkMax == 2000         \* Math.min(2000, ...)
ChunkDivisor == 20       \* Math.floor(totalRows / 20)
StoreBatchMin == 100     \* Math.max(100, ...)
StoreBatchMax == 1000    \* Math.min(1000, ...)
StoreBatchDivisor == 10  \* Math.floor(length / 10)
GeocodeBatchSize == 10   \* const batchSize = 10
InitialId == 1           \* private currentId = 1

Min(a, b) == IF a < b THEN a ELSE b
Max(a, b) == IF a > b THEN a ELSE b

(***************************************************************************)
(* Strings and cells.                                                      *)
(***************************************************************************)
Empty == << >>
Space == " "

RECURSIVE TrimLeft(_)
TrimLeft(s) == IF s # Empty /\ Head(s) = Space THEN TrimLeft(Tail(s)) ELSE s

RECURSIVE TrimRight(_)
TrimRight(s) ==
    IF s # Empty /\ s[Len(s)] = Space THEN TrimRight(SubSeq(s, 1, Len(s) - 1)) ELSE s

\* String.prototype.trim
Trim(s) == TrimRight(TrimLeft(s))

Num(n) == [t |-> "num", v |-> n]
Str(s) == [t |-> "str", v |-> s]
Undefined == [t |-> "undef", v |-> 0]

\* rowData[col]
Get(row, col) == IF col \in DOMAIN row THEN row[col] ELSE Undefined

\* JavaScript truthiness of a cell
Truthy(c) ==
    CASE c.t = "num" -> c.v # 0
      [] c.t = "str" -> c.v # Empty
      [] OTHER -> FALSE

\* a || b
Or(a, b) == IF Truthy(a) THEN a ELSE b


NaN == [t |-> "nan", v |-> 0]

Digits == <<"0", "1", "2", "3", "4", "5", "6", "7", "8", "9">>
IsDigit(ch) == \E d \in 1..10 : Digits[d] = ch
DigitVal(ch) == (CHOOSE d \in 1..10 : Digits[d] = ch) - 1

\* the value of the leading run of digits of s, starting from acc
RECURSIVE DigitRun(_, _)
DigitRun(s, acc) ==
    IF s # Empty /\ IsDigit(Head(s))
    THEN DigitRun(Tail(s), acc * 10 + DigitVal(Head(s)))
    ELSE acc

\* parseInt of a cell: a number is itself; a string gives its leading digits
\* (after leading white space and an optional minus sign), or NaN without any
ParseInt(c) ==
    CASE c.t = "num" -> c
      [] c.t = "str" ->
           LET s == TrimLeft(c.v)
               neg == s # Empty /\ Head(s) = "-"
               body == IF neg THEN Tail(s) ELSE s
           IN  IF body # Empty /\ IsDigit(Head(body))
               THEN Num(IF neg THEN 0 - DigitRun(body, 0) ELSE DigitRun(body, 0))
               ELSE NaN
      [] OTHER -> NaN

\* decimal digits of a natural number
RECURSIVE NatToStr(_)
NatToStr(n) ==
    IF n < 10 THEN <<Digits[n + 1]>> ELSE NatToStr(n \div 10) \o <<Digits[(n % 10) + 1]>>

\* String(x) of a defined cell
ToStr(c) ==
    CASE c.t = "str" -> c.v
      [] c.t = "num" -> IF c.v < 0 THEN <<"-">> \o NatToStr(0 - c.v) ELSE NatToStr(c.v)
      [] OTHER -> <<"N", "a", "N">>

\* a + b on JavaScript numbers
Plus(a, b) == IF a.t = "nan" \/ b.t = "nan" THEN NaN ELSE Num(a.v + b.v)

(***************************************************************************)
(* Spreadsheet normalizer: one row of sheet_to_json to one InsertSalesData. *)
(***************************************************************************)
possibleMakerColumns ==
    <<"Maker", "maker", "MAKER", "Manufacturer", "manufacturer", "MANUFACTURER",
      "Company", "company", "COMPANY">>
possibleRTOColumns ==
    <<"RTO", "rto", "Rto", "RTO_Code", "rto_code", "RTO Code", "rto code">>
months ==
    <<"JAN", "FEB", "MAR", "APR", "MAY", "JUN", "JUL", "AUG", "SEP", "OCT", "NOV", "DEC">>
monthsLower ==
    <<"jan", "feb", "mar", "apr", "may", "jun", "jul", "aug", "sep", "oct", "nov", "dec">>
\* AllowedYears with the years next to the range
AllowedYearsWide == 2021..2026

AllowedYears == {2022, 2023, 2024, 2025}

\* m.toLowerCase() for m one of months
ToLowerCase(m) == monthsLower[CHOOSE k \in 1..12 : months[k] = m]

\* the first column of cols the row defines, as a trimmed string; '' when none
RECURSIVE FindColumn(_, _)
FindColumn(row, cols) ==
    IF cols = << >> THEN Empty
    ELSE IF Head(cols) \in DOMAIN row THEN Trim(ToStr(row[Head(cols)]))
    ELSE FindColumn(row, Tail(cols))

\* val of one month: parseInt(rowData[m] || rowData[m.toLowerCase()] || '0')
MonthVal(row, m) ==
    ParseInt(Or(Or(Get(row, m), Get(row, ToLowerCase(m))), Str(<<"0">>)))

\* SumMonths that stops after the first month
SumMonthsFirstOnly(row, k) == MonthVal(row, months[1])

RECURSIVE SumMonths(_, _)
SumMonths(row, k) ==
    IF k = 0 THEN Num(0) ELSE Plus(SumMonths(row, k - 1), MonthVal(row, months[k]))

\* total that is always the computed sum
TotalComputed(row, yearTotal) == yearTotal

\* total: parseInt(rowData['total'] || rowData['Total'] || '0') || yearTotal
Total(row, yearTotal) ==
    Or(ParseInt(Or(Or(Get(row, "total"), Get(row, "Total")), Str(<<"0">>))), yearTotal)

\* the schema of @shared/schema: text fields are strings, numeric fields numbers
SchemaOk(d) ==
    /\ \A f \in {"state", "city", "maker", "rto", "district"} : d[f].t = "str"
    /\ \A f \in {"sales2022", "sales2023", "sales2024", "sales2025", "total"} :
           d[f].t = "num"

\* The body of the per-row try block: [ok |-> FALSE] for a skipped row, else
\* the InsertSalesData pushed on salesDataArray.
NormalizeRow(row) ==
    LET maker == FindColumn(row, possibleMakerColumns)
        rto == FindColumn(row, possibleRTOColumns)
        year == ParseInt(Or(Or(Get(row, "Year"), Get(row, "year")), Str(<<"0">>)))
        state == Or(Or(Get(row, "state"), Get(row, "State")), Str(Empty))
        city == Or(Or(Get(row, "city"), Get(row, "City")), Str(Empty))
        district == Or(Or(Get(row, "District"), Get(row, "district")), Str(Empty))
        yearTotal == SumMonths(row, 12)
        total == Total(row, yearTotal)
        salesOf(y) == IF year = Num(y) THEN yearTotal ELSE Num(0)
        salesData ==
            [state |-> state, city |-> city, maker |-> Str(maker), rto |-> Str(rto),
             district |-> district,
             sales2022 |-> salesOf(2022), sales2023 |-> salesOf(2023),
             sales2024 |-> salesOf(2024), sales2025 |-> salesOf(2025),
             total |-> total]
    IN  IF maker = Empty \/ rto = Empty \/ ~Truthy(state) \/ ~Truthy(city)
        THEN [ok |-> FALSE]
        ELSE IF ~(year.t = "num" /\ year.v \in AllowedYears)
        THEN [ok |-> FALSE]
        ELSE IF ~SchemaOk(salesData)
        THEN [ok |-> FALSE]
        ELSE [ok |-> TRUE,
              data |-> [state |-> state.v, city |-> city.v, maker |-> maker,
                        rto |-> rto, district |-> district.v,
                        latitude |-> 0, longitude |-> 0,
                        sales2022 |-> salesData.sales2022.v,
                        sales2023 |-> salesData.sales2023.v,
                        sales2024 |-> salesData.sales2024.v,
                        sales2025 |-> salesData.sales2025.v,
                        total |-> total.v,
                        months |-> [k \in 1..12 |-> MonthVal(row, months[k]).v]]]

(***************************************************************************)
(* Uploaded files.  A decoded sheet is a sequence of runs [row, n]: n      *)
(* consecutive copies of one row.  A file is [ok, runs]: ok is whether     *)
(* XLSX.read decodes it, runs its first sheet.  Corrupt is one it throws on. *)
(***************************************************************************)
Corrupt == [ok |-> FALSE, runs |-> << >>]

RECURSIVE SheetLen(_)
SheetLen(runs) == IF runs = << >> THEN 0 ELSE Head(runs).n + SheetLen(Tail(runs))

\* jsonData[k - 1], for k in 1..SheetLen(runs)
RECURSIVE RowAt(_, _)
RowAt(runs, k) ==
    IF k <= Head(runs).n THEN Head(runs).row ELSE RowAt(Tail(runs), k - Head(runs).n)

\* ChunkSize without its lower limit
ChunkSizeNoMin(totalRows) == Min(ChunkMax, totalRows \div ChunkDivisor)

\* chunkSize of processExcelInBackground
ChunkSize(totalRows) == Min(ChunkMax, Max(ChunkMin, totalRows \div ChunkDivisor))

\* ProcessChunk that gives the chunk up at a row that fails
ProcessChunkAborts(runs, lo, hi, acc) ==
    LET normalized == [k \in 1..(hi - lo + 1) |-> NormalizeRow(RowAt(runs, lo + k - 1))]
    IN  IF \A k \in DOMAIN normalized : normalized[k].ok
        THEN acc \o [k \in DOMAIN normalized |-> normalized[k].data]
        ELSE acc

\* ProcessChunk that normalizes nothing
ProcessChunkSkips(runs, lo, hi, acc) == acc

\* the inner loop over one chunk: the rows lo..hi of the sheet in order, the
\* accepted ones appended to acc
IsAccepted(r) == r.ok
ProcessChunk(runs, lo, hi, acc) ==
    LET normalized == [k \in 1..(hi - lo + 1) |-> NormalizeRow(RowAt(runs, lo + k - 1))]
        accepted == SelectSeq(normalized, IsAccepted)
    IN  acc \o [k \in 1..Len(accepted) |-> accepted[k].data]

(***************************************************************************)
(* MemStorage.  A store is [map, currentId]: map is salesDataMap as the    *)
(* sequence of its values in insertion order.                              *)
(***************************************************************************)
StringDefaults == {"maker", "rto", "district"}
NumberDefaults == {"sales2022", "sales2023", "sales2024", "sales2025", "total"}

\* { ...insertData, id, maker: insertData.maker || '', ..., total: insertData.total || 0 }
WithDefaults(insertData, id) ==
    [f \in DOMAIN insertData \cup StringDefaults \cup NumberDefaults \cup {"id"} |->
        CASE f = "id" -> id
          [] f \in StringDefaults -> IF f \in DOMAIN insertData THEN insertData[f] ELSE Empty
          [] f \in NumberDefaults -> IF f \in DOMAIN insertData THEN insertData[f] ELSE 0
          [] OTHER -> insertData[f]]

\* MapSet that appends whether or not the key is present
MapSetAppends(map, id, data) == Append(map, data)

\* Map.prototype.set: replaces the value of a present key in place, else appends
MapSet(map, id, data) ==
    IF \E k \in 1..Len(map) : map[k].id = id
    THEN [k \in 1..Len(map) |-> IF map[k].id = id THEN data ELSE map[k]]
    ELSE Append(map, data)

\* Map.prototype.get
MapHas(map, id) == \E k \in 1..Len(map) : map[k].id = id
MapGet(map, id) == map[CHOOSE k \in 1..Len(map) : map[k].id = id]

\* NextId one ahead of the counter
NextIdAfter(store) == store.currentId + 1

\* the id taken by this.currentId++
NextId(store) == store.currentId

\* createSalesData: the store afterwards
CreateSalesData(store, insertData) ==
    LET id == NextId(store)
    IN  [map |-> MapSet(store.map, id, WithDefaults(insertData, id)),
         currentId |-> id + 1]

\* batchSize of createMultipleSalesData
StoreBatchSize(len) == Min(StoreBatchMax, Max(StoreBatchMin, len \div StoreBatchDivisor))

\* InsertOne with this.currentId read but not incremented
InsertOneKeepsCounter(st, insertData) ==
    CHOOSE after \in
        {LET id == s.currentId
             data == WithDefaults(insertData, id)
         IN  [map |-> MapSet(s.map, id, data),
              currentId |-> id,
              results |-> Append(s.results, data)] : s \in {st}} : TRUE

\* the body of batch.map: one record inserted; st is [map, currentId, results]
\* (s is st, computed once)
InsertOne(st, insertData) ==
    CHOOSE after \in
        {LET id == s.currentId
             data == WithDefaults(insertData, id)
         IN  [map |-> MapSet(s.map, id, data),
              currentId |-> id + 1,
              results |-> Append(s.results, data)] : s \in {st}} : TRUE

\* InsertBatch that returns after its first record
InsertBatchFirstOnly(st, arr, lo, hi) == InsertOne(st, arr[lo])

\* batch.map(...) and results.push: the records lo..hi of the array, one after
\* another in order.  (The range is walked by halves and `left`, the state after
\* the first half, is computed before the second half is begun, which keeps the
\* evaluation shallow.)
RECURSIVE InsertBatch(_, _, _, _)
InsertBatch(st, arr, lo, hi) ==
    IF lo > hi THEN st
    ELSE IF lo = hi THEN InsertOne(st, arr[lo])
    ELSE CHOOSE after \in
        {InsertBatch(left, arr, (lo + hi) \div 2 + 1, hi) :
            left \in {InsertBatch(st, arr, lo, (lo + hi) \div 2)}} : TRUE

\* the for loop of createMultipleSalesData from index i (0-based)
RECURSIVE InsertFrom(_, _, _)
InsertFrom(st, arr, i) ==
    IF i >= Len(arr) THEN st
    ELSE LET batchSize == StoreBatchSize(Len(arr))
         IN  InsertFrom(InsertBatch(st, arr, i + 1, Min(i + batchSize, Len(arr))),
                        arr, i + batchSize)

\* createMultipleSalesData: [map, currentId] afterwards and the returned results
CreateMultipleSalesData(store, arr) ==
    InsertFrom([map |-> store.map, currentId |-> store.currentId, results |-> << >>],
               arr, 0)

StoreOf(st) == [map |-> st.map, currentId |-> st.currentId]

\* ClearSalesData without the reset of currentId
ClearSalesDataKeepsCounter(store) == [map |-> << >>, currentId |-> store.currentId]

\* ClearSalesData without salesDataMap.clear()
ClearSalesDataKeepsRecords(store) == [map |-> store.map, currentId |-> InitialId]

\* clearSalesData
ClearSalesData(store) == [map |-> << >>, currentId |-> InitialId]

\* updateSalesDataCoordinates
UpdateSalesDataCoordinates(store, id, latitude, longitude) ==
    IF MapHas(store.map, id)
    THEN [store EXCEPT !.map =
            MapSet(store.map, id,
                   [MapGet(store.map, id) EXCEPT !.latitude = latitude,
                                                 !.longitude = longitude])]
    ELSE store

\* getAllSalesData
GetAllSalesData(store) == store.map

(***************************************************************************)
(* Inputs of the model: the rows an uploaded sheet is made of, and the     *)
(* answers of the external geocoding service.                              *)
(***************************************************************************)
RowPune ==
    [c \in {"Maker", "RTO", "State", "City", "Year", "JAN", "FEB"} |->
        CASE c = "Maker" -> Str(<<"A">>)
          [] c = "RTO" -> Str(<<"R", "1">>)
          [] c = "State" -> Str(<<"M", "H">>)
          [] c = "City" -> Str(<<"P">>)
          [] c = "Year" -> Num(2023)
          [] c = "JAN" -> Num(10)
          [] OTHER -> Num(20)]
RowGoa ==
    [c \in {"maker", "rto", "state", "city", "year", "jan", "Total"} |->
        CASE c = "maker" -> Str(<<" ", "B">>)
          [] c = "rto" -> Num(7)
          [] c = "state" -> Str(<<"G", "A">>)
          [] c = "city" -> Str(<<"Q">>)
          [] c = "year" -> Str(<<"2", "0", "2", "4">>)
          [] c = "jan" -> Num(5)
          [] OTHER -> Num(99)]
\* a partial row: no maker column
RowPartial ==
    [c \in {"State", "City"} |-> IF c = "State" THEN Str(<<"M", "H">>) ELSE Str(<<"P">>)]

RowKinds == {RowPune, RowGoa, RowPartial}

\* the sheet with the rows of head followed by pad partial rows
Sheet(head, pad) ==
    [ok |-> TRUE,
     runs |-> [k \in 1..Len(head) |-> [row |-> head[k], n |-> 1]]
                \o (IF pad > 0 THEN <<[row |-> RowPartial, n |-> pad]>> ELSE << >>)]

\* The files a behaviour uploads: one the decoder rejects, an empty sheet, a
\* sheet of partial rows only, a sheet of one row, a sheet of two rows of one
\* city, and a sheet of several chunks whose valid row follows a partial one.
Files ==
    {Corrupt,
     Sheet(<< >>, 0),
     Sheet(<<RowPartial>>, PadRows),
     Sheet(<<RowPune>>, 0),
     Sheet(<<RowPune, RowPune>>, 0),
     Sheet(<<RowPartial, RowGoa>>, PadRows)}

\* `${item.city}, ${item.state}`
CacheKey(item) == item.city \o <<",", " ">> \o item.state

\* The geocoding service: the place it knows for an address, if any.
GeoLocation(key) ==
    CASE key = <<"P", ",", " ", "M", "H">> -> [latitude |-> 18, longitude |-> 73]
      [] key = <<"Q", ",", " ", "G", "A">> -> [latitude |-> 15, longitude |-> 74]
      [] OTHER -> [latitude |-> 0, longitude |-> 0]

\* what one fetch of the geocoding URL can come back with: "OK" with a result,
\* a status other than OK or no result, or a rejected request
GeoAnswers == {"OK", "ZERO_RESULTS", "throws"}

(***************************************************************************)
(* State.                                                                  *)
(*   storage        the MemStorage singleton: [map, currentId]             *)
(*   uploadStatus   the uploadStatus map: upload id -> status record       *)
(*   geocodingCache the geocodingCache map: cache key -> coordinates       *)
(*   apiKey         whether GOOGLE_MAP_API / GOOGLE_GEOCODING_API is set   *)
(*   uploads        per upload id, the activation of                       *)
(*                  processExcelInBackground: where it is suspended (pc)   *)
(*                  and its locals                                         *)
(*   passes         the activations of updateCoordinatesInBackground, in   *)
(*                  the order they were started                            *)
(*   microtasks     the promise-job queue of the event loop: continuations *)
(*                  of awaits whose promise is already settled.  A timer,  *)
(*                  an I/O completion or a request handler runs only when  *)
(*                  this queue is empty.                                   *)
(*   requests       how many requests of each kind were served             *)
(*   lastInsertBy   the latest createMultipleSalesData call: the upload    *)
(*                  that made it and the array it passed                   *)
(*   lastUpdates    the coordinates found by the updateSalesDataCoordinates*)
(*                  calls of the latest step that made any                 *)
(*   response       the body of the latest response to                     *)
(*                  POST /api/cascading-filters, with the request's body   *)
(*   poll           the client's pollUploadStatus for the first upload:    *)
(*                  where it is, its attempts and the status it saw last   *)
(***************************************************************************)
VARIABLES storage, uploadStatus, geocodingCache, apiKey, uploads, passes,
          microtasks, requests, lastInsertBy, lastUpdates, response, poll

vars == <<storage, uploadStatus, geocodingCache, apiKey, uploads, passes,
          microtasks, requests, lastInsertBy, lastUpdates, response, poll>>

UploadIds == 1..MaxRequests

NoValidData ==
    "No valid data found in the Excel file. Please check the format and required columns."
DecoderMessage == "decoder error message"

Idle == [pc |-> "idle"]
\* no response to POST /api/cascading-filters was sent yet
NoResponse == [sent |-> FALSE]
PassOver == [pc |-> "done"]
\* pollUploadStatus was not called yet
NoPoll == [pc |-> "idle", attempts |-> 0, seen |-> "none"]

Init ==
    /\ storage = [map |-> << >>, currentId |-> InitialId]
    /\ uploadStatus = << >>
    /\ geocodingCache = << >>
    /\ apiKey \in BOOLEAN
    /\ uploads = [j \in UploadIds |-> Idle]
    /\ passes = << >>
    /\ microtasks = << >>
    /\ requests = [upload |-> 0, clear |-> 0, update |-> 0]
    /\ lastInsertBy = [upload |-> 0, batch |-> << >>]
    /\ lastUpdates = {}
    /\ response = NoResponse
    /\ poll = NoPoll

\* a macrotask (timer, I/O completion, request) runs between microtask drains
MacrotaskTurn == microtasks = << >>

\* one more request is served
Serve(kind) ==
    /\ requests.upload + requests.clear + requests.update < MaxRequests
    /\ requests' = [requests EXCEPT ![kind] = @ + 1]

\* StatusSet with the value stored under every key
StatusSetEveryKey(map, uploadId, value) == [j \in DOMAIN map \cup {uploadId} |-> value]

\* StatusSet that forgets every other job
StatusSetOnlyKey(map, uploadId, value) == [j \in {uploadId} |-> value]

\* uploadStatus.set(uploadId, value)
StatusSet(map, uploadId, value) ==
    [j \in DOMAIN map \cup {uploadId} |-> IF j = uploadId THEN value ELSE map[j]]

(***************************************************************************)
(* updateCoordinatesInBackground                                           *)
(***************************************************************************)
\* StartPass that does not look at the API key
StartPassAnyway(ps, store, key) ==
    Append(ps, [pc |-> "scan", allData |-> GetAllSalesData(store),
                items |-> << >>, i |-> 0, st |-> << >>, lookups |-> << >>])

\* the call itself, up to its first await: nothing without an API key, else
\* getAllSalesData is called and the activation waits for its promise
StartPass(ps, store, key) ==
    IF ~key THEN ps
    ELSE Append(ps, [pc |-> "scan", allData |-> GetAllSalesData(store),
                     items |-> << >>, i |-> 0, st |-> << >>, lookups |-> << >>])

\* the microtasks StartPass queues
StartPassTasks(ps, key) == IF ~key THEN << >> ELSE <<<<"pass", Len(ps) + 1>>>>

\* itemsNeedingGeocode
NeedsGeocode(item) ==
    item.latitude = 0 /\ item.longitude = 0 /\ item.state # Empty /\ item.city # Empty

\* what an updateSalesDataCoordinates(id, ..) call finds: the coordinates of the
\* record it is about to write (nothing when the id is unknown)
Overwritten(store, id) ==
    {[id |-> id, latitude |-> MapGet(store.map, id).latitude,
      longitude |-> MapGet(store.map, id).longitude] : x \in {y \in {id} : MapHas(store.map, y)}}

\* batch.map(async (item) => ...) up to each callback's first await, for the
\* items lo..hi in order.  w is [store, cache, st, lookups, tasks, updates].
\* (w is w0, computed once)
RECURSIVE MapBatch(_, _, _, _, _)
MapBatch(w0, p, items, lo, hi) ==
    IF lo > hi THEN w0
    ELSE CHOOSE after \in
        {LET item == items[lo]
             cacheKey == CacheKey(item)
         IN  IF cacheKey \in DOMAIN w.cache
             THEN LET coords == w.cache[cacheKey]
                  IN  MapBatch(
                        [w EXCEPT
                           !.store = UpdateSalesDataCoordinates(
                                        @, item.id, coords.latitude, coords.longitude),
                           !.updates = @ \cup Overwritten(w.store, item.id),
                           !.st[lo] = "updating",
                           !.tasks = Append(@, <<"item", p, lo>>)],
                        p, items, lo + 1, hi)
             ELSE MapBatch(
                        [w EXCEPT !.st[lo] = "fetching",
                                  !.lookups = Append(@, cacheKey)],
                        p, items, lo + 1, hi) : w \in {w0}} : TRUE

\* the microtask queue without its head, which is being run
Rest == Tail(microtasks)

\* The for loop of updateCoordinatesInBackground at its test, with index i and
\* the activation ps: either the next batch is mapped and Promise.all awaited,
\* or the pass ends.
PassLoop(p, ps, i) ==
    LET len == Len(ps.items)
    IN  IF i < len
        THEN LET w == MapBatch([store |-> storage, cache |-> geocodingCache,
                                st |-> ps.st, lookups |-> ps.lookups,
                                tasks |-> << >>, updates |-> {}],
                               p, ps.items, i + 1, Min(i + GeocodeBatchSize, len))
             IN  /\ passes' = [passes EXCEPT ![p] =
                                 [ps EXCEPT !.pc = "batch", !.i = i,
                                            !.st = w.st, !.lookups = w.lookups]]
                 /\ storage' = w.store
                 /\ microtasks' = Rest \o w.tasks
                 /\ lastUpdates' = IF w.tasks = << >> THEN lastUpdates ELSE w.updates
        ELSE /\ passes' = [passes EXCEPT ![p] = PassOver]
             /\ microtasks' = Rest
             /\ UNCHANGED <<storage, lastUpdates>>

\* Continuation of `await storage.getAllSalesData()`: the filter, then the loop.
\* (allData holds the store's own record objects; no step separates the call
\* from this continuation, so their fields are still as read.)
PassScan(p) ==
    /\ microtasks # << >> /\ Head(microtasks) = <<"pass", p>>
    /\ passes[p].pc = "scan"
    /\ LET needing == SelectSeq(passes[p].allData, NeedsGeocode)
           items == [k \in 1..Len(needing) |->
                        [id |-> needing[k].id, city |-> needing[k].city,
                         state |-> needing[k].state]]
       IN  PassLoop(p, [passes[p] EXCEPT !.allData = << >>, !.items = items,
                                         !.st = [k \in 1..Len(items) |-> "todo"]], 0)
    /\ UNCHANGED <<uploadStatus, geocodingCache, apiKey, response, poll, uploads, requests, lastInsertBy>>

\* BatchSettled that holds as soon as one callback has returned
BatchSettledAtFirst(ps, st) == TRUE

\* every callback of the batch being awaited has returned
BatchSettled(ps, st) ==
    \A k \in (ps.i + 1)..Min(ps.i + GeocodeBatchSize, Len(ps.items)) : st[k] = "done"

\* a callback of batch.map returns: Promise.all settles with the last of them
ItemDone(p, k, queue) ==
    LET st == [passes[p].st EXCEPT ![k] = "done"]
    IN  IF BatchSettled(passes[p], st)
        THEN /\ passes' = [passes EXCEPT ![p].st = st, ![p].pc = "batchDone"]
             /\ microtasks' = Append(queue, <<"pass", p>>)
        ELSE /\ passes' = [passes EXCEPT ![p].st = st]
             /\ microtasks' = queue

\* continuation of `await storage.updateSalesDataCoordinates(...)` in a callback
ItemReturn(p, k) ==
    /\ microtasks # << >> /\ Head(microtasks) = <<"item", p, k>>
    /\ passes[p].st[k] = "updating"
    /\ ItemDone(p, k, Rest)
    /\ UNCHANGED <<storage, uploadStatus, geocodingCache, apiKey, response, poll, uploads, requests,
                   lastInsertBy, lastUpdates>>

\* The fetch of one callback comes back (fetch and response.json(), between
\* which the callback touches no shared state).
FetchReturns(p, k, answer) ==
    /\ MacrotaskTurn
    /\ passes[p].pc = "batch" /\ passes[p].st[k] = "fetching"
    /\ LET item == passes[p].items[k]
           cacheKey == CacheKey(item)
           coords == GeoLocation(cacheKey)
       IN  IF answer = "OK"
           THEN /\ geocodingCache' =
                      [c \in DOMAIN geocodingCache \cup {cacheKey} |->
                          IF c = cacheKey THEN coords ELSE geocodingCache[c]]
                /\ storage' = UpdateSalesDataCoordinates(
                                  storage, item.id, coords.latitude, coords.longitude)
                /\ lastUpdates' = Overwritten(storage, item.id)
                /\ passes' = [passes EXCEPT ![p].st[k] = "updating"]
                /\ microtasks' = <<<<"item", p, k>>>>
           ELSE /\ ItemDone(p, k, << >>)
                /\ UNCHANGED <<geocodingCache, storage, lastUpdates>>
    /\ UNCHANGED <<uploadStatus, apiKey, response, poll, uploads, requests, lastInsertBy>>

FetchReturn(p) ==
    /\ passes[p].pc = "batch"
    /\ \E k \in DOMAIN passes[p].st, answer \in GeoAnswers : FetchReturns(p, k, answer)

CallbackReturn(p) ==
    /\ passes[p].pc = "batch"
    /\ \E k \in DOMAIN passes[p].st : ItemReturn(p, k)

\* continuation of `await Promise.all(...)`: the inter-batch delay, or the loop
PassBatchDone(p) ==
    /\ microtasks # << >> /\ Head(microtasks) = <<"pass", p>>
    /\ passes[p].pc = "batchDone"
    /\ IF passes[p].i + GeocodeBatchSize < Len(passes[p].items)
       THEN /\ passes' = [passes EXCEPT ![p].pc = "delay"]
            /\ microtasks' = Rest
            /\ UNCHANGED <<storage, lastUpdates>>
       ELSE PassLoop(p, passes[p], passes[p].i + GeocodeBatchSize)
    /\ UNCHANGED <<uploadStatus, geocodingCache, apiKey, response, poll, uploads, requests, lastInsertBy>>

\* the setTimeout(resolve, 1000) between batches fires
DelayTimer(p) ==
    /\ MacrotaskTurn
    /\ passes[p].pc = "delay"
    /\ passes' = [passes EXCEPT ![p].pc = "delayed"]
    /\ microtasks' = <<<<"pass", p>>>>
    /\ UNCHANGED <<storage, uploadStatus, geocodingCache, apiKey, response, poll, uploads, requests,
                   lastInsertBy, lastUpdates>>

\* continuation of the inter-batch delay: i += batchSize and the loop test
PassAfterDelay(p) ==
    /\ microtasks # << >> /\ Head(microtasks) = <<"pass", p>>
    /\ passes[p].pc = "delayed"
    /\ PassLoop(p, passes[p], passes[p].i + GeocodeBatchSize)
    /\ UNCHANGED <<uploadStatus, geocodingCache, apiKey, response, poll, uploads, requests, lastInsertBy>>

\* POST /api/update-coordinates
UpdateCoordinatesRequest ==
    /\ MacrotaskTurn
    /\ Serve("update")
    /\ passes' = StartPass(passes, storage, apiKey)
    /\ microtasks' = StartPassTasks(passes, apiKey)
    /\ UNCHANGED <<storage, uploadStatus, geocodingCache, apiKey, response, poll, uploads,
                   lastInsertBy, lastUpdates>>

\* POST /api/clear-sales-data
ClearRequest ==
    /\ MacrotaskTurn
    /\ Serve("clear")
    /\ storage' = ClearSalesData(storage)
    /\ UNCHANGED <<uploadStatus, geocodingCache, apiKey, response, poll, uploads, passes, microtasks,
                   lastInsertBy, lastUpdates>>

(***************************************************************************)
(* processExcelInBackground                                                *)
(***************************************************************************)
Registered == [status |-> "processing", totalRows |-> 0, processedRows |-> 0,
               insertedRecords |-> 0]

\* Failed that sets the status and leaves the message out
FailedNoMessage(status, message) == [status EXCEPT !.status = "error"]

\* { ...uploadStatus.get(uploadId), status: 'error', error: message }
Failed(status, message) ==
    [f \in DOMAIN status \cup {"error"} |->
        CASE f = "status" -> "error"
          [] f = "error" -> message
          [] OTHER -> status[f]]

\* Completed with processedRows set to the number of inserted records
CompletedCountsInserted(status, insertedRecords, totalRows) ==
    [status EXCEPT !.status = "completed", !.insertedRecords = insertedRecords,
                   !.processedRows = insertedRecords]

\* Completed that records a failure, as the catch block would after the insert
CompletedAsError(status, insertedRecords, totalRows) == Failed(status, NoValidData)

\* { ...uploadStatus.get(uploadId), status: 'completed', insertedRecords, processedRows }
Completed(status, insertedRecords, totalRows) ==
    [status EXCEPT !.status = "completed", !.insertedRecords = insertedRecords,
                   !.processedRows = totalRows]

\* the activation has returned; the file it was given is kept for reference
Finished(file) == [pc |-> "done", file |-> file]

\* NoValidRows with the test never true
NoValidRowsNever(salesDataArray) == FALSE

\* salesDataArray.length === 0
NoValidRows(salesDataArray) == salesDataArray = << >>

\* The chunk loop at its test, with index i and locals l, in a status map us and
\* with the microtask queue `queue` left to run: the next chunk is normalized,
\* progress is updated and the job yields to a timer; or the loop is over, and
\* the job fails for want of valid rows or clears the store and awaits that.
JobLoop(j, us, l, i, queue) ==
    LET chunkSize == ChunkSize(l.totalRows)
    IN  IF i < l.totalRows
        THEN /\ uploads' = [uploads EXCEPT ![j] =
                   [l EXCEPT !.pc = "timer", !.i = i,
                             !.salesDataArray =
                                 ProcessChunk(l.file.runs, i + 1,
                                              Min(i + chunkSize, l.totalRows), @)]]
             /\ uploadStatus' =
                   [us EXCEPT ![j].processedRows = Min(i + chunkSize, l.totalRows)]
             /\ microtasks' = queue
             /\ UNCHANGED storage
        ELSE IF NoValidRows(l.salesDataArray)
        THEN /\ uploads' = [uploads EXCEPT ![j] = Finished(l.file)]
             /\ uploadStatus' = StatusSet(us, j, Failed(us[j], NoValidData))
             /\ microtasks' = queue
             /\ UNCHANGED storage
        ELSE /\ uploads' = [uploads EXCEPT ![j] = [l EXCEPT !.pc = "clearing", !.i = i]]
             /\ uploadStatus' = us
             /\ storage' = ClearSalesData(storage)
             /\ microtasks' = Append(queue, <<"job", j>>)

\* the files a client uploads
LongSheet == [ok |-> TRUE, runs |-> <<[row |-> RowPune, n |-> GeocodeBatchSize + 1]>>]
\* a sheet of two batches of records to geocode, with another city first
MixedSheet ==
    [ok |-> TRUE, runs |-> <<[row |-> RowGoa, n |-> 1],
                             [row |-> RowPune, n |-> GeocodeBatchSize]>>]
Uploadable ==
    Files \cup (IF CacheKey(NormalizeRow(RowPune).data) \in DOMAIN geocodingCache
                THEN {LongSheet, MixedSheet} ELSE {})

\* POST /api/upload-excel with a file: generateUploadId, then
\* processExcelInBackground up to its first await
UploadExcel(j, file) ==
    /\ MacrotaskTurn
    /\ Serve("upload")
    /\ j = requests.upload + 1
    /\ LET us == StatusSet(uploadStatus, j, Registered)
       IN  IF ~file.ok
           THEN /\ uploads' = [uploads EXCEPT ![j] = Finished(file)]
                /\ uploadStatus' = StatusSet(us, j, Failed(us[j], DecoderMessage))
                /\ UNCHANGED <<storage, microtasks>>
           ELSE LET totalRows == SheetLen(file.runs)
                IN  JobLoop(j, [us EXCEPT ![j].totalRows = totalRows],
                            [pc |-> "start", file |-> file, totalRows |-> totalRows,
                             i |-> 0, salesDataArray |-> << >>],
                            0, << >>)
    /\ UNCHANGED <<geocodingCache, apiKey, response, poll, passes, lastInsertBy, lastUpdates>>

\* the setTimeout(resolve, 0) / setImmediate(resolve) of the chunk loop fires
ChunkTimer(j) ==
    /\ MacrotaskTurn
    /\ uploads[j].pc = "timer"
    /\ uploads' = [uploads EXCEPT ![j].pc = "resume"]
    /\ microtasks' = <<<<"job", j>>>>
    /\ UNCHANGED <<storage, uploadStatus, geocodingCache, apiKey, response, poll, passes, requests,
                   lastInsertBy, lastUpdates>>

\* continuation of the chunk loop's await: i += chunkSize and the loop test
JobResume(j) ==
    /\ microtasks # << >> /\ Head(microtasks) = <<"job", j>>
    /\ uploads[j].pc = "resume"
    /\ JobLoop(j, uploadStatus, uploads[j],
               uploads[j].i + ChunkSize(uploads[j].totalRows), Rest)
    /\ UNCHANGED <<geocodingCache, apiKey, response, poll, passes, requests, lastInsertBy, lastUpdates>>

\* continuation of `await storage.clearSalesData()`: createMultipleSalesData
JobInsert(j) ==
    /\ microtasks # << >> /\ Head(microtasks) = <<"job", j>>
    /\ uploads[j].pc = "clearing"
    /\ LET st == CreateMultipleSalesData(storage, uploads[j].salesDataArray)
       IN  /\ storage' = StoreOf(st)
           /\ uploads' = [uploads EXCEPT ![j] =
                  [pc |-> "inserting", file |-> uploads[j].file,
                   totalRows |-> uploads[j].totalRows,
                   insertedData |-> Len(st.results)]]
    /\ lastInsertBy' = [upload |-> j, batch |-> uploads[j].salesDataArray]
    /\ microtasks' = Append(Rest, <<"job", j>>)
    /\ UNCHANGED <<uploadStatus, geocodingCache, apiKey, response, poll, passes, requests, lastUpdates>>

\* continuation of `await storage.createMultipleSalesData(...)`: the final
\* status, then updateCoordinatesInBackground() is started
JobComplete(j) ==
    /\ microtasks # << >> /\ Head(microtasks) = <<"job", j>>
    /\ uploads[j].pc = "inserting"
    /\ uploadStatus' = StatusSet(uploadStatus, j,
           Completed(uploadStatus[j], uploads[j].insertedData, uploads[j].totalRows))
    /\ uploads' = [uploads EXCEPT ![j] = Finished(uploads[j].file)]
    /\ passes' = StartPass(passes, storage, apiKey)
    /\ microtasks' = Rest \o StartPassTasks(passes, apiKey)
    /\ UNCHANGED <<storage, geocodingCache, apiKey, response, poll, requests, lastInsertBy, lastUpdates>>

(***************************************************************************)
(* The event loop.                                                         *)
(***************************************************************************)
Next ==
    \/ \E j \in UploadIds, file \in Uploadable : UploadExcel(j, file)
    \/ \E j \in UploadIds : ChunkTimer(j)
    \/ \E j \in UploadIds : JobResume(j)
    \/ \E j \in UploadIds : JobInsert(j)
    \/ \E j \in UploadIds : JobComplete(j)
    \/ UpdateCoordinatesRequest
    \/ ClearRequest
    \/ \E p \in DOMAIN passes : PassScan(p)
    \/ \E p \in DOMAIN passes : FetchReturn(p)
    \/ \E p \in DOMAIN passes : CallbackReturn(p)
    \/ \E p \in DOMAIN passes : PassBatchDone(p)
    \/ \E p \in DOMAIN passes : DelayTimer(p)
    \/ \E p \in DOMAIN passes : PassAfterDelay(p)

Spec == Init /\ [][Next]_vars

(***************************************************************************)
(* Fair scheduling: the event loop runs every queued microtask and every   *)
(* expired chunk timer.                                                    *)
(***************************************************************************)
\* the event loop runs the continuation at the head of the microtask queue
RunMicrotask ==
    \/ \E j \in UploadIds : JobResume(j) \/ JobInsert(j) \/ JobComplete(j)
    \/ \E p \in DOMAIN passes :
          PassScan(p) \/ CallbackReturn(p) \/ PassBatchDone(p) \/ PassAfterDelay(p)

FairSpec ==
    /\ Spec
    /\ WF_vars(RunMicrotask)
    /\ \A j \in UploadIds : WF_vars(ChunkTimer(j))

(***************************************************************************)
(* Properties of the upload job.                                           *)
(***************************************************************************)
Terminal == {"completed", "error"}
StatusOf(j) == uploadStatus[j].status

\* C1: a job's status changes only from processing to completed or from
\* processing to error; no step of any job or enrichment pass changes the
\* status of a job that is completed or in error, or unregisters a job.
C1_StatusOnlyLeavesProcessing ==
    [][\A j \in DOMAIN uploadStatus :
          /\ j \in DOMAIN uploadStatus'
          /\ uploadStatus'[j].status # uploadStatus[j].status
                => /\ uploadStatus[j].status = "processing"
                   /\ uploadStatus'[j].status \in Terminal]_vars

\* a job is over while another upload is processing and a pass is running
C1_Witness ==
    \E j, k \in DOMAIN uploadStatus :
        /\ StatusOf(j) \in Terminal
        /\ StatusOf(k) = "processing"
        /\ \E p \in DOMAIN passes : passes[p].pc = "batch"

\* C2: every started job eventually leaves processing, whatever its file
C2_JobLeavesProcessing ==
    \A j \in UploadIds :
        [](j \in DOMAIN uploadStatus
              => <>(j \in DOMAIN uploadStatus /\ StatusOf(j) \in Terminal))

\* a job of several chunks is over
C2_Witness ==
    \E j \in DOMAIN uploadStatus :
        /\ StatusOf(j) \in Terminal
        /\ uploadStatus[j].totalRows > ChunkSize(uploadStatus[j].totalRows)

\* C3: totalRows, processedRows and insertedRecords of a job never decrease
C3_CountersNeverDecrease ==
    [][\A j \in DOMAIN uploadStatus :
          /\ j \in DOMAIN uploadStatus'
          /\ uploadStatus'[j].totalRows >= uploadStatus[j].totalRows
          /\ uploadStatus'[j].processedRows >= uploadStatus[j].processedRows
          /\ uploadStatus'[j].insertedRecords >= uploadStatus[j].insertedRecords]_vars

\* a job of several chunks has completed with fewer records than rows
C3_Witness ==
    \E j \in DOMAIN uploadStatus :
        /\ StatusOf(j) = "completed"
        /\ uploadStatus[j].processedRows > ChunkMin
        /\ uploadStatus[j].insertedRecords > 0

\* the rows of a file the normalizer accepts, in source order
AcceptedRows(file) == ProcessChunk(file.runs, 1, SheetLen(file.runs), << >>)

\* what a store cleared and then given the rows `rows` as one batch holds
Numbered(rows) == [k \in 1..Len(rows) |-> WithDefaults(rows[k], k)]

\* C4: at the step that completes a job the store holds exactly the accepted
\* rows of the job's file, one record each, numbered 1..k in source order, and
\* the job reports insertedRecords = k and processedRows = totalRows = the
\* number of rows of the sheet.
C4_CompletedStoreIsTheFile ==
    [][\A j \in DOMAIN uploadStatus :
          (StatusOf(j) = "processing" /\ uploadStatus'[j].status = "completed")
             => LET rows == AcceptedRows(uploads[j].file)
                IN  /\ storage'.map = Numbered(rows)
                    /\ storage'.currentId = Len(rows) + 1
                    /\ uploadStatus'[j].insertedRecords = Len(rows)
                    /\ uploadStatus'[j].totalRows = SheetLen(uploads[j].file.runs)
                    /\ uploadStatus'[j].processedRows = uploadStatus'[j].totalRows]_vars

\* a job of several chunks has completed, some of its rows skipped, and the
\* store holds as many records as it reports
C4_Witness ==
    \E j \in DOMAIN uploadStatus :
        /\ StatusOf(j) = "completed"
        /\ uploadStatus[j].totalRows > ChunkMin
        /\ uploadStatus[j].insertedRecords < uploadStatus[j].totalRows
        /\ Len(storage.map) = uploadStatus[j].insertedRecords

\* the decodable files none of whose rows is accepted
NothingAccepted == {file \in Files \cup {LongSheet} : file.ok /\ AcceptedRows(file) = << >>}

\* C5: a job whose file has no accepted row is never completed, and once its
\* activation has returned it is in error with a message.
C5_NoValidRowsIsAnError ==
    \A j \in DOMAIN uploadStatus :
        uploads[j].file \in NothingAccepted
            => /\ StatusOf(j) # "completed"
               /\ uploads[j].pc = "done"
                     => /\ StatusOf(j) = "error"
                        /\ "error" \in DOMAIN uploadStatus[j]
                        /\ uploadStatus[j].error = NoValidData

\* a job whose sheet has rows, all of them skipped, has ended in error
C5_Witness ==
    \E j \in DOMAIN uploadStatus :
        /\ uploads[j].pc = "done"
        /\ uploads[j].file \in NothingAccepted
        /\ uploadStatus[j].totalRows > ChunkMin
        /\ StatusOf(j) = "error"

\* the records of a store without their coordinates
WithoutCoordinates(map) ==
    [k \in 1..Len(map) |-> [map[k] EXCEPT !.latitude = 0, !.longitude = 0]]

\* every started activation of processExcelInBackground has returned
AllJobsOver == \A j \in UploadIds : uploads[j].pc \in {"idle", "done"}

\* C6: when two uploads have both completed (and no job is running, and the
\* store was not cleared by a request), the store holds exactly the batch of
\* the job whose createMultipleSalesData ran last, enrichment aside.
C6_LastInsertWins ==
    \A j1, j2 \in DOMAIN uploadStatus :
        (/\ j1 # j2
         /\ StatusOf(j1) = "completed" /\ StatusOf(j2) = "completed"
         /\ AllJobsOver
         /\ requests.clear = 0)
            => /\ lastInsertBy.upload \in DOMAIN uploadStatus
               /\ StatusOf(lastInsertBy.upload) = "completed"
               /\ WithoutCoordinates(storage.map) = Numbered(lastInsertBy.batch)

\* two uploads of different files ran concurrently and both completed, the one
\* started first inserting last
C6_Witness ==
    /\ 1 \in DOMAIN uploadStatus /\ 2 \in DOMAIN uploadStatus
    /\ StatusOf(1) = "completed" /\ StatusOf(2) = "completed"
    /\ AllJobsOver
    /\ uploads[1].file # uploads[2].file
    /\ lastInsertBy.upload = 1
    /\ WithoutCoordinates(storage.map) = Numbered(AcceptedRows(uploads[1].file))

(***************************************************************************)
(* Properties of enrichment.                                               *)
(***************************************************************************)
\* C7: a pass never issues two external lookups for the same (city, state)
\* pair.
C7_AtMostOneLookupPerPair ==
    \A p \in DOMAIN passes :
        passes[p].pc # "done"
            => \A a, b \in DOMAIN passes[p].lookups :
                  a # b => passes[p].lookups[a] # passes[p].lookups[b]

\* C8: every updateSalesDataCoordinates call of enrichment finds the record it
\* writes still at the sentinel coordinates (0, 0).
C8_EnrichedNeverRewritten ==
    \A u \in lastUpdates : u.latitude = 0 /\ u.longitude = 0

(***************************************************************************)
(* MemStorage on its own: any sequence of calls of createSalesData,        *)
(* createMultipleSalesData, clearSalesData and updateSalesDataCoordinates. *)
(***************************************************************************)
\* inserts are called while the id counter is at most this
MaxCounter == 3

PuneData == NormalizeRow(RowPune).data
GoaData == NormalizeRow(RowGoa).data

\* the arrays passed to createMultipleSalesData: none, one, a few records, and
\* one more than the smallest batch the method cuts its input into
Batches ==
    {<< >>, <<PuneData>>, <<GoaData, PuneData>>, <<PuneData, GoaData, GoaData>>,
     [k \in 1..(StoreBatchMin + 1) |-> IF k = StoreBatchMin THEN GoaData ELSE PuneData]}

OnlyTheStore ==
    UNCHANGED <<uploadStatus, geocodingCache, apiKey, response, poll, uploads, passes, microtasks,
                lastUpdates>>

CallCreateSalesData(insertData) ==
    /\ storage.currentId <= MaxCounter
    /\ storage' = CreateSalesData(storage, insertData)
    /\ UNCHANGED <<requests, lastInsertBy>>
    /\ OnlyTheStore

CallCreateMultipleSalesData(arr) ==
    /\ storage.currentId <= MaxCounter
    /\ storage' = StoreOf(CreateMultipleSalesData(storage, arr))
    /\ lastInsertBy' = [upload |-> 0, batch |-> arr]
    /\ UNCHANGED requests
    /\ OnlyTheStore

CallClearSalesData ==
    /\ Serve("clear")
    /\ storage' = ClearSalesData(storage)
    /\ UNCHANGED lastInsertBy
    /\ OnlyTheStore

CallUpdateSalesDataCoordinates(id) ==
    /\ LET coords == GeoLocation(CacheKey(PuneData))
       IN  storage' = UpdateSalesDataCoordinates(
                          storage, id, coords.latitude, coords.longitude)
    /\ UNCHANGED <<requests, lastInsertBy>>
    /\ OnlyTheStore

NextStore ==
    \/ \E insertData \in {PuneData, GoaData} : CallCreateSalesData(insertData)
    \/ \E arr \in Batches : CallCreateMultipleSalesData(arr)
    \/ CallClearSalesData
    \/ \E id \in {InitialId, MaxCounter + 1} : CallUpdateSalesDataCoordinates(id)

SpecStore == Init /\ [][NextStore]_vars

\* the ids of the records of a store, in the order the store holds them
Ids(map) == [k \in 1..Len(map) |-> map[k].id]

\* the record holds every field of the data it was made from
Holds(record, insertData) == \A f \in DOMAIN insertData : record[f] = insertData[f]

\* C9: createMultipleSalesData of N records at counter c leaves the records the
\* store held as they were, followed by N more records that hold the input in
\* input order under the ids c, c+1, ..., c+N-1, and leaves the counter at c+N.
C9_BatchInsertNumbersInOrder ==
    \A arr \in Batches :
        LET c == storage.currentId
            N == Len(arr)
            held == Len(storage.map)
            after == StoreOf(CreateMultipleSalesData(storage, arr))
        IN  /\ Len(after.map) = held + N
            /\ \A k \in 1..held : after.map[k] = storage.map[k]
            /\ \A k \in 1..N : /\ after.map[held + k].id = c + k - 1
                               /\ Holds(after.map[held + k], arr[k])
            /\ Cardinality({after.map[k].id : k \in 1..(held + N)}) = held + N
            /\ after.currentId = c + N

\* an array cut into two batches was inserted into a store that held records
C9_Witness ==
    /\ Len(lastInsertBy.batch) > StoreBatchMin
    /\ Len(storage.map) > Len(lastInsertBy.batch)
    /\ Ids(storage.map) = [k \in 1..Len(storage.map) |-> k]

\* C10: clearSalesData leaves no record and the counter at 1, and the first
\* record of a createSalesData or createMultipleSalesData that follows has id 1.
C10_ClearRestartsIds ==
    LET cleared == ClearSalesData(storage)
    IN  /\ cleared.map = << >>
        /\ cleared.currentId = 1
        /\ \A insertData \in {PuneData, GoaData} :
              Ids(CreateSalesData(cleared, insertData).map) = <<1>>
        /\ \A arr \in Batches \ {<< >>} :
              Ids(CreateMultipleSalesData(cleared, arr).map) = [k \in 1..Len(arr) |-> k]
        /\ requests.clear > 0 => Ids(storage.map) = [k \in 1..Len(storage.map) |-> k]

\* the store was cleared while it held records, some with coordinates, and
\* records were inserted afterwards
C10_Witness ==
    /\ requests.clear > 0
    /\ storage.map # << >>
    /\ lastInsertBy.batch # << >>
    /\ Head(storage.map).id = 1
    /\ Head(storage.map).latitude # 0

(***************************************************************************)
(* createMultipleSalesData against repeated createSalesData.               *)
(***************************************************************************)
\* the record createSalesData returns
Returned(store, insertData) == WithDefaults(insertData, NextId(store))

\* createSalesData called for the records lo..hi of arr one after another; st is
\* [map, currentId, results], results the records returned so far.  (Walked by
\* halves like InsertBatch.)
RECURSIVE InsertEach(_, _, _, _)
InsertEach(st, arr, lo, hi) ==
    IF lo > hi THEN st
    ELSE IF lo = hi
    THEN CHOOSE after \in
        {LET store == CreateSalesData(StoreOf(s), arr[lo])
         IN  [map |-> store.map, currentId |-> store.currentId,
              results |-> Append(s.results, Returned(StoreOf(s), arr[lo]))] :
            s \in {st}} : TRUE
    ELSE CHOOSE after \in
        {InsertEach(left, arr, (lo + hi) \div 2 + 1, hi) :
            left \in {InsertEach(st, arr, lo, (lo + hi) \div 2)}} : TRUE

\* an InsertSalesData without the optional fields
SparseData ==
    [state |-> <<"M", "H">>, city |-> <<"P">>, latitude |-> 0, longitude |-> 0]

\* the arrays compared: those of Batches and two with records that rely on the
\* defaults
Arrays == Batches \cup {<<SparseData>>, <<GoaData, SparseData, PuneData>>}

\* C11: from the same store, createMultipleSalesData(arr) and createSalesData
\* called for each record of arr in order give the same returned records, the
\* same records in the store and the same counter.
C11_BatchIsRepeatedInsert ==
    \A arr \in Arrays :
        CreateMultipleSalesData(storage, arr)
            = InsertEach([map |-> storage.map, currentId |-> storage.currentId,
                          results |-> << >>], arr, 1, Len(arr))

\* an array cut into two batches was inserted into the empty store, which now
\* holds what the single inserts of its records give
C11_Witness ==
    /\ Len(lastInsertBy.batch) > StoreBatchMin
    /\ storage = StoreOf(InsertEach([map |-> << >>, currentId |-> InitialId,
                                     results |-> << >>],
                                    lastInsertBy.batch, 1, Len(lastInsertBy.batch)))

(***************************************************************************)
(* updateSalesDataCoordinates.                                             *)
(***************************************************************************)
\* the ids and coordinates updateSalesDataCoordinates is called with
UpdateIds == 0..(MaxCounter + 2)
Coordinates == {0, 18, 73}

CoordinateFields == {"latitude", "longitude"}

\* C12: updateSalesDataCoordinates(id, lat, lon) leaves the counter, the number
\* and order of the records and every record of another id as they were; the
\* record of that id keeps its fields other than latitude and longitude, which
\* become lat and lon; with no record of that id the store is unchanged.
C12_UpdateTouchesOnlyCoordinates ==
    \A id \in UpdateIds, lat \in Coordinates, lon \in Coordinates :
        LET after == UpdateSalesDataCoordinates(storage, id, lat, lon)
        IN  /\ after.currentId = storage.currentId
            /\ Len(after.map) = Len(storage.map)
            /\ \A k \in 1..Len(storage.map) :
                  IF storage.map[k].id = id
                  THEN /\ DOMAIN after.map[k] = DOMAIN storage.map[k]
                       /\ \A f \in DOMAIN storage.map[k] \ CoordinateFields :
                             after.map[k][f] = storage.map[k][f]
                       /\ after.map[k].latitude = lat
                       /\ after.map[k].longitude = lon
                  ELSE after.map[k] = storage.map[k]
            /\ (\A k \in 1..Len(storage.map) : storage.map[k].id # id)
                  => after = storage

\* a record in the middle of the store was given coordinates; its neighbours
\* are still at (0, 0)
C12_Witness ==
    /\ Len(storage.map) > MaxCounter + 1
    /\ storage.map[MaxCounter + 1].latitude # 0
    /\ storage.map[MaxCounter].latitude = 0
    /\ storage.map[MaxCounter + 2].latitude = 0
    /\ Ids(storage.map) = [k \in 1..Len(storage.map) |-> k]

(***************************************************************************)
(* POST /api/cascading-filters.  A request body is a record with some of   *)
(* the fields makers, rtos, states, districts, each an array of strings.   *)
(***************************************************************************)
\* the characters of the model's strings in ascending order of their code units
Alphabet ==
    <<" ", ",", "0", "1", "2", "3", "4", "5", "6", "7", "8", "9",
      "A", "B", "C", "D", "E", "F", "G", "H", "I", "J", "K", "L", "M",
      "N", "O", "P", "Q", "R", "S", "T", "U", "V", "W", "X", "Y", "Z",
      "a", "b", "c", "d", "e", "f", "g", "h", "i", "j", "k", "l", "m",
      "n", "o", "p", "q", "r", "s", "t", "u", "v", "w", "x", "y", "z">>

CharCode(ch) == CHOOSE k \in 1..Len(Alphabet) : Alphabet[k] = ch

\* s < t as Array.prototype.sort compares strings: by code units, a proper
\* prefix first
RECURSIVE StringLess(_, _)
StringLess(s, t) ==
    IF t = Empty THEN FALSE
    ELSE IF s = Empty THEN TRUE
    ELSE IF Head(s) = Head(t) THEN StringLess(Tail(s), Tail(t))
    ELSE CharCode(Head(s)) < CharCode(Head(t))

\* v put in its place in the ascending array sorted
RECURSIVE SortedInsert(_, _)
SortedInsert(sorted, v) ==
    IF sorted = << >> THEN <<v>>
    ELSE IF StringLess(v, Head(sorted)) THEN <<v>> \o sorted
    ELSE <<Head(sorted)>> \o SortedInsert(Tail(sorted), v)

\* Sort that leaves the array as it is
SortKeepsOrder(arr) == arr

\* Array.prototype.sort() of an array of strings
RECURSIVE Sort(_)
Sort(arr) == IF arr = << >> THEN << >> ELSE SortedInsert(Sort(Tail(arr)), Head(arr))

\* Array.prototype.includes
Includes(arr, v) == \E k \in 1..Len(arr) : arr[k] = v

\* const { makers = [], rtos = [], states = [], districts = [] } = req.body
Param(body, name) == IF name \in DOMAIN body THEN body[name] ELSE << >>

\* the record field each request parameter is matched against
FieldOf(name) ==
    CASE name = "makers" -> "maker"
      [] name = "rtos" -> "rto"
      [] name = "states" -> "state"
      [] name = "districts" -> "district"

Dimensions == {"makers", "rtos", "states", "districts"}

\* Match with an empty selection matching nothing
MatchNonEmpty(body, name, item) == Includes(Param(body, name), item[FieldOf(name)])

\* makers.length === 0 || makers.includes(item.maker), for the parameter `name`
Match(body, name, item) ==
    Len(Param(body, name)) = 0 \/ Includes(Param(body, name), item[FieldOf(name)])

\* the callback of allData.filter
MatchesAll(body, item) ==
    /\ Match(body, "makers", item)
    /\ Match(body, "rtos", item)
    /\ Match(body, "states", item)
    /\ Match(body, "districts", item)

\* filteredData
FilteredData(allData, body) ==
    LET kept == {k \in 1..Len(allData) : MatchesAll(body, allData[k])}
        RECURSIVE From(_)
        From(k) ==
            IF k > Len(allData) THEN << >>
            ELSE (IF k \in kept THEN <<allData[k]>> ELSE << >>) \o From(k + 1)
    IN  From(1)

\* Set.prototype.add on a Set kept in insertion order
SetAdd(set, v) == IF Includes(set, v) THEN set ELSE Append(set, v)

\* MatchesOthers with the dimension's own selection applied as well
MatchesEvery(body, name, item) == MatchesAll(body, item)

\* the condition under which forEach adds item's value to the Set of `name`
MatchesOthers(body, name, item) ==
    CASE name = "makers" ->
             Match(body, "rtos", item) /\ Match(body, "states", item)
                 /\ Match(body, "districts", item)
      [] name = "rtos" ->
             Match(body, "makers", item) /\ Match(body, "states", item)
                 /\ Match(body, "districts", item)
      [] name = "states" ->
             Match(body, "makers", item) /\ Match(body, "rtos", item)
                 /\ Match(body, "districts", item)
      [] name = "districts" ->
             Match(body, "makers", item) /\ Match(body, "rtos", item)
                 /\ Match(body, "states", item)

\* the Set of `name` after allData.forEach has visited the first k items
RECURSIVE OptionSet(_, _, _, _)
OptionSet(allData, body, name, k) ==
    IF k = 0 THEN << >>
    ELSE IF MatchesOthers(body, name, allData[k])
    THEN SetAdd(OptionSet(allData, body, name, k - 1), allData[k][FieldOf(name)])
    ELSE OptionSet(allData, body, name, k - 1)

\* .filter(Boolean) on an array of strings
RECURSIVE FilterBoolean(_)
FilterBoolean(arr) ==
    IF arr = << >> THEN << >>
    ELSE (IF Head(arr) # Empty THEN <<Head(arr)>> ELSE << >>) \o FilterBoolean(Tail(arr))

\* Array.from(options).filter(Boolean).sort()
AvailableOptions(allData, body, name) ==
    Sort(FilterBoolean(OptionSet(allData, body, name, Len(allData))))

\* the body of the response
CascadingFilters(allData, body) ==
    [filteredData |-> FilteredData(allData, body),
     availableOptions |-> [name \in Dimensions |-> AvailableOptions(allData, body, name)]]

(***************************************************************************)
(* The route on its own: requests with any body of Bodies against a store  *)
(* of up to MaxFiltered records.                                           *)
(***************************************************************************)
\* records are inserted while the id counter is at most this
MaxFiltered == 3

Dealer(maker, rto, state, district) ==
    [PuneData EXCEPT !.maker = maker, !.rto = rto, !.state = state,
                     !.district = district]

\* the records of the stores: two makers, two RTOs, two states, and districts
\* of which one is empty
Dealers ==
    {Dealer(<<"B">>, <<"R", "1">>, <<"M", "H">>, <<"D", "2">>),
     Dealer(<<"A">>, <<"R", "2">>, <<"G", "A">>, Empty),
     Dealer(<<"A">>, <<"R", "1">>, <<"M", "H">>, <<"D", "1">>)}

\* the request bodies: every combination of a few selections per dimension, a
\* body without any field and one with makers only
Bodies ==
    [makers : {<< >>, <<<<"A">>>>, <<<<"B">>, <<"Z">>>>},
     rtos : {<< >>, <<<<"R", "1">>>>},
     states : {<< >>, <<<<"M", "H">>>>},
     districts : {<< >>, <<<<"D", "1">>, Empty>>}]
        \cup {[makers |-> <<<<"A">>>>]}

\* the handler of POST /api/cascading-filters
CascadingFiltersRequest(body) ==
    /\ LET answer == CascadingFilters(GetAllSalesData(storage), body)
       IN  response' = [sent |-> TRUE, body |-> body,
                        filteredData |-> answer.filteredData,
                        availableOptions |-> answer.availableOptions]
    /\ UNCHANGED <<storage, uploadStatus, geocodingCache, apiKey, uploads, passes,
                   microtasks, requests, lastInsertBy, lastUpdates, poll>>

\* a record is added to the store
FiltersInsert(insertData) ==
    /\ storage.currentId <= MaxFiltered
    /\ storage' = CreateSalesData(storage, insertData)
    /\ UNCHANGED <<requests, lastInsertBy>>
    /\ OnlyTheStore

InitFilters == Init /\ ~apiKey

NextFilters ==
    \/ \E body \in Bodies : CascadingFiltersRequest(body)
    \/ \E insertData \in Dealers : FiltersInsert(insertData)

SpecFilters == InitFilters /\ [][NextFilters]_vars

\* the values of an array
Values(arr) == {arr[k] : k \in 1..Len(arr)}

\* the selection of a dimension in a body: none when the field is absent or empty
Selection(body, name) == IF name \in DOMAIN body THEN Values(body[name]) ELSE {}

\* C13: the filteredData of a response is exactly the records of the store
\* whose value, in each dimension with a selection, is one of the selected
\* values, each once and in the order of the store; with no selection at all
\* it is every record of the store.
C13_FilteredDataIsTheConjunction ==
    [][response' # response =>
          LET wanted == {item \in Values(storage.map) :
                            \A name \in Dimensions :
                                \/ Selection(response'.body, name) = {}
                                \/ item[FieldOf(name)] \in Selection(response'.body, name)}
              got == response'.filteredData
          IN  /\ Values(got) = wanted
              /\ Len(got) = Cardinality(wanted)
              /\ \A a, b \in 1..Len(got) : a < b => got[a].id < got[b].id
              /\ (\A name \in Dimensions : Selection(response'.body, name) = {})
                    => got = storage.map]_vars

\* a response to a request with selections in two dimensions held some of the
\* records of a store of several, and not all
C13_Witness ==
    /\ response.sent
    /\ Cardinality({name \in Dimensions : Selection(response.body, name) # {}}) >= 2
    /\ response.filteredData # << >>
    /\ Len(response.filteredData) < Len(storage.map)
    /\ Values(response.filteredData) \subseteq Values(storage.map)

\* a body without the field `name`
Without(body, name) == [f \in DOMAIN body \ {name} |-> body[f]]

\* C14: availableOptions of a dimension holds exactly the non-empty values of
\* that dimension over the records of the store that satisfy the selections of
\* the other three dimensions; the dimension's own selection has no part in it
\* (the same request without that selection gives the same list).
C14_OptionsExcludeOwnSelection ==
    [][response' # response =>
          \A name \in Dimensions :
              LET others == Dimensions \ {name}
                  within == {item \in Values(storage.map) :
                                \A other \in others :
                                    \/ Selection(response'.body, other) = {}
                                    \/ item[FieldOf(other)]
                                           \in Selection(response'.body, other)}
                  got == response'.availableOptions[name]
              IN  /\ Values(got) = {item[FieldOf(name)] : item \in within} \ {Empty}
                  /\ got = AvailableOptions(storage.map,
                                            Without(response'.body, name), name)]_vars

\* a response to a request that selects makers lists a maker that is not
\* selected, and does not list a district that only records of other makers have
C14_Witness ==
    /\ response.sent
    /\ Selection(response.body, "makers") # {}
    /\ Selection(response.body, "districts") = {}
    /\ \E v \in Values(response.availableOptions["makers"]) :
          v \notin Selection(response.body, "makers")
    /\ \E item \in Values(storage.map) :
          /\ item.district # Empty
          /\ item.district \notin Values(response.availableOptions["districts"])

(***************************************************************************)
(* The normalizer on its own: one upload of any sheet of up to MaxSheet    *)
(* rows drawn from RowCases, without an API key.                           *)
(***************************************************************************)
\* rows of a sheet
MaxSheet == 2

\* the row with the cell of one column set, or added
WithCell(row, col, cell) ==
    [c \in DOMAIN row \cup {col} |-> IF c = col THEN cell ELSE row[c]]

\* the row without a column
WithoutCell(row, col) == [c \in DOMAIN row \ {col} |-> row[c]]

RowBlankMaker == WithCell(RowPune, "Maker", Str(<<" ", " ">>))
RowBlankState == WithCell(RowPune, "State", Str(<<" ">>))
RowNoCity == WithoutCell(RowPune, "City")
RowYear2021 == WithCell(RowPune, "Year", Num(2021))
RowYear2026 == WithCell(RowPune, "Year", Str(<<"2", "0", "2", "6">>))
RowNoYear == WithoutCell(RowPune, "Year")
RowZeroTotal == WithCell(RowPune, "total", Num(0))
RowExplicitTotal == WithCell(RowPune, "total", Num(99))
\* the row of 2023 with its first month under the label Jan
RowTitleMonth == WithCell(WithoutCell(RowPune, "JAN"), "Jan", Num(10))
RowTextTotal == WithCell(RowPune, "Total", Str(<<"n", "a">>))
RowTextMonth == WithCell(RowPune, "MAR", Str(<<"x">>))

RowCases ==
    {RowPune, RowGoa, RowPartial, RowBlankMaker, RowBlankState, RowNoCity,
     RowYear2021, RowYear2026, RowNoYear, RowZeroTotal, RowExplicitTotal,
     RowTextTotal, RowTextMonth, RowTitleMonth}

\* the sheets uploaded
RowSheets ==
    {Sheet(head, 0) : head \in UNION {[1..n -> RowCases] : n \in 0..MaxSheet}}

InitRows == Init /\ ~apiKey

NextRows ==
    \/ \E file \in RowSheets : requests.upload = 0 /\ UploadExcel(1, file)
    \/ ChunkTimer(1)
    \/ JobResume(1)
    \/ JobInsert(1)
    \/ JobComplete(1)

SpecRows == InitRows /\ [][NextRows]_vars

\* the rows of a decoded sheet, in order
RowsOf(file) == [k \in 1..SheetLen(file.runs) |-> RowAt(file.runs, k)]

\* the cell is missing, or empty once white space is trimmed off it
Blank(cell) == ~Truthy(cell) \/ (cell.t = "str" /\ Trim(cell.v) = Empty)

\* the first of the columns cols the row has, Undefined when it has none
RECURSIVE FirstCell(_, _)
FirstCell(row, cols) ==
    IF cols = << >> THEN Undefined
    ELSE IF Head(cols) \in DOMAIN row THEN row[Head(cols)]
    ELSE FirstCell(row, Tail(cols))

\* maker, rto, state or city of the row is missing or empty after trimming
RequiredMissing(row) ==
    \/ Blank(FirstCell(row, possibleMakerColumns))
    \/ Blank(FirstCell(row, possibleRTOColumns))
    \/ Blank(Or(Get(row, "state"), Get(row, "State")))
    \/ Blank(Or(Get(row, "city"), Get(row, "City")))

HasRequired(row) == ~RequiredMissing(row)

\* C15: a row whose maker, rto, state or city is missing or empty after
\* trimming gives no record and no job error, and the records of a completed
\* job are those of the sheet without such rows, with the same ids.
C15_BlankRequiredFieldSkipsRow ==
    1 \in DOMAIN uploadStatus =>
        LET rows == RowsOf(uploads[1].file)
            others == AcceptedRows(Sheet(SelectSeq(rows, HasRequired), 0))
        IN  /\ \A k \in 1..Len(rows) : RequiredMissing(rows[k]) => ~NormalizeRow(rows[k]).ok
            /\ StatusOf(1) = "completed" => storage.map = Numbered(others)
            /\ (uploads[1].pc = "done" /\ others # << >>) => StatusOf(1) = "completed"

\* the year of a row as the normalizer resolves it
YearOf(row) == ParseInt(Or(Or(Get(row, "Year"), Get(row, "year")), Str(<<"0">>)))

YearAllowed(row) == YearOf(row).t = "num" /\ YearOf(row).v \in {2022, 2023, 2024, 2025}

\* C16: a row whose year is not 2022, 2023, 2024 or 2025 gives no record: the
\* normalizer rejects it, and the records of a completed job are those of the
\* sheet without such rows.
C16_YearOutsideRangeSkipsRow ==
    1 \in DOMAIN uploadStatus =>
        LET rows == RowsOf(uploads[1].file)
        IN  /\ \A k \in 1..Len(rows) : ~YearAllowed(rows[k]) => ~NormalizeRow(rows[k]).ok
            /\ StatusOf(1) = "completed"
                  => storage.map
                        = Numbered(AcceptedRows(Sheet(SelectSeq(rows, YearAllowed), 0)))

\* a job has completed on a sheet of a row of 2021, 2026 or no year, otherwise
\* valid, and a row of an allowed year, with one record
C16_Witness ==
    /\ 1 \in DOMAIN uploadStatus
    /\ StatusOf(1) = "completed"
    /\ \E k \in 1..Len(RowsOf(uploads[1].file)) :
          RowsOf(uploads[1].file)[k] \in {RowYear2021, RowYear2026, RowNoYear}
    /\ Len(storage.map) = 1
    /\ Len(RowsOf(uploads[1].file)) = 2

\* the row is accepted by the normalizer
Accepts(row) == NormalizeRow(row).ok

\* the value of month k in a source row: the number in the cell of the upper- or
\* lower-case label (a text cell counts by the integer it starts with), 0
\* without a cell
MonthlyValue(row, k) ==
    LET cell == Or(Get(row, months[k]), Get(row, monthsLower[k]))
    IN  CASE cell.t = "num" -> cell.v
          [] cell.t = "str" /\ cell.v # Empty -> ParseInt(cell).v
          [] OTHER -> 0

RECURSIVE MonthlySum(_, _)
MonthlySum(row, k) == IF k = 0 THEN 0 ELSE MonthlySum(row, k - 1) + MonthlyValue(row, k)

\* the yearly sales fields of a record, by year
SalesOf(record) ==
    [y \in {2022, 2023, 2024, 2025} |->
        CASE y = 2022 -> record.sales2022
          [] y = 2023 -> record.sales2023
          [] y = 2024 -> record.sales2024
          [] y = 2025 -> record.sales2025]

\* C17: in a completed job the record of every accepted row holds, in the sales
\* field of the row's year, the sum of the row's twelve monthly values, and 0
\* in the three other sales fields; months 10 and 20 of 2023 give sales2023 = 30.
C17_YearSalesIsMonthlySum ==
    (1 \in DOMAIN uploadStatus /\ StatusOf(1) = "completed") =>
        LET accepted == SelectSeq(RowsOf(uploads[1].file), Accepts)
        IN  /\ Len(storage.map) = Len(accepted)
            /\ \A k \in 1..Len(accepted) :
                  /\ \A y \in {2022, 2023, 2024, 2025} :
                        SalesOf(storage.map[k])[y]
                            = IF YearOf(accepted[k]).v = y
                              THEN MonthlySum(accepted[k], 12) ELSE 0
                  /\ accepted[k] = RowPune
                        => /\ storage.map[k].sales2023 = 30
                           /\ storage.map[k].sales2022 = 0
                           /\ storage.map[k].sales2024 = 0
                           /\ storage.map[k].sales2025 = 0

\* a job has completed with the record of the row of 2023 whose months are 10
\* and 20 and the record of a row of 2024 with one lower-case month of 5
C17_Witness ==
    /\ 1 \in DOMAIN uploadStatus
    /\ StatusOf(1) = "completed"
    /\ RowsOf(uploads[1].file) = <<RowPune, RowGoa>>
    /\ storage.map[1].sales2023 = 30
    /\ storage.map[2].sales2024 = 5

\* the explicit total of a source row: the integer in its total cell, or with
\* none (or a zero one) in its Total cell; 0 when neither holds a non-zero integer
ExplicitTotal(row) ==
    LET lower == Get(row, "total")
        cell == IF Truthy(lower) THEN lower ELSE Get(row, "Total")
        read == IF cell.t = "str" THEN ParseInt(cell) ELSE cell
    IN  IF read.t = "num" THEN read.v ELSE 0

\* C18: in a completed job the total of the record of every accepted row is the
\* row's explicit total when that is a non-zero number, and otherwise the sum
\* of the row's twelve monthly values; the row of months 10 and 20 has total 30
\* and the same row with an explicit total of 99 would have 99.
C18_ExplicitTotalWins ==
    (1 \in DOMAIN uploadStatus /\ StatusOf(1) = "completed") =>
        LET accepted == SelectSeq(RowsOf(uploads[1].file), Accepts)
        IN  /\ Len(storage.map) = Len(accepted)
            /\ \A k \in 1..Len(accepted) :
                  /\ storage.map[k].total
                        = IF ExplicitTotal(accepted[k]) # 0
                          THEN ExplicitTotal(accepted[k])
                          ELSE MonthlySum(accepted[k], 12)
                  /\ accepted[k] = RowPune => storage.map[k].total = 30
                  /\ accepted[k] = RowExplicitTotal => storage.map[k].total = 99

\* a job has completed with the record of a row whose explicit total is 99 and
\* whose months sum to 30, and the record of the same row with a total of 0
C18_Witness ==
    /\ 1 \in DOMAIN uploadStatus
    /\ StatusOf(1) = "completed"
    /\ RowsOf(uploads[1].file) = <<RowExplicitTotal, RowZeroTotal>>
    /\ MonthlySum(RowExplicitTotal, 12) = 30
    /\ storage.map[1].total = 99
    /\ storage.map[2].total = 30

\* Math.round(p / t * 100) for naturals p and t > 0
RoundPercent(p, t) == (200 * p + t) \div (2 * t)

\* GET /api/upload-status/:uploadId: 404 when the map has no entry for the id,
\* else the entry with its progressPercent
UploadStatusRequest(map, uploadId) ==
    IF uploadId \notin DOMAIN map
    THEN [code |-> 404]
    ELSE [code |-> 200,
          status |-> map[uploadId].status,
          progressPercent |->
              IF map[uploadId].totalRows > 0
              THEN RoundPercent(map[uploadId].processedRows, map[uploadId].totalRows)
              ELSE 0]

\* the ids POST /api/upload-excel has returned
ReturnedIds == 1..requests.upload

\* C19: a status query for an upload id that the upload route has returned is
\* never answered not-found, in any state of any interleaving; the job was
\* registered before the id was returned and is never removed.
C19_ReturnedIdIsRegistered ==
    \A j \in ReturnedIds : UploadStatusRequest(uploadStatus, j).code = 200

\* an id has been returned whose job is still processing with its work
\* pending, a query for it answers processing, and a second job was started
\* after it; a query for an id never returned answers not-found
C19_Witness ==
    /\ requests.upload = 2
    /\ UploadStatusRequest(uploadStatus, 1).code = 200
    /\ UploadStatusRequest(uploadStatus, 1).status = "processing"
    /\ uploads[1].pc # "done"
    /\ UploadStatusRequest(uploadStatus, 2).code = 200
    /\ UploadStatusRequest(uploadStatus, 3).code = 404

\* a step in which updateCoordinatesInBackground is called: the one of
\* POST /api/update-coordinates, or the one that completes a job
CallsUpdateCoordinates ==
    \/ requests'.update # requests.update
    \/ \E j \in DOMAIN uploadStatus :
          /\ StatusOf(j) = "processing"
          /\ uploadStatus'[j].status = "completed"

\* C20: without an API key a call of updateCoordinatesInBackground starts no
\* pass and queues none, so no lookup is issued, and it leaves the store and
\* the geocoding cache as they were; the request that only makes this call
\* leaves every job status as it was too.
C20_NoKeyPassIsNoOp ==
    [][(~apiKey /\ CallsUpdateCoordinates) =>
          /\ passes' = << >>
          /\ passes = << >>
          /\ \A k \in 1..Len(microtasks') : microtasks'[k][1] # "pass"
          /\ geocodingCache' = geocodingCache
          /\ lastUpdates' = lastUpdates
          /\ storage'.map = storage.map
          /\ (requests'.update # requests.update =>
                 /\ storage' = storage
                 /\ uploadStatus' = uploadStatus)]_vars

\* without an API key a job has completed and an update request was served
\* while records without coordinates are in the store: nothing was looked up
C20_Witness ==
    /\ ~apiKey
    /\ requests.update = 1
    /\ \E j \in DOMAIN uploadStatus : StatusOf(j) = "completed"
    /\ \E id \in DOMAIN storage.map : NeedsGeocode(storage.map[id])
    /\ passes = << >>
    /\ geocodingCache = << >>

(***************************************************************************)
(* Enrichment against concurrent uploads.                                  *)
(***************************************************************************)
\* the record holds the sentinel coordinates
AtSentinel(record) == record.latitude = 0 /\ record.longitude = 0

\* the record holds what the geocoding service answers for its own city, state
OwnCoordinates(record) ==
    /\ record.latitude = GeoLocation(CacheKey(record)).latitude
    /\ record.longitude = GeoLocation(CacheKey(record)).longitude

\* C21: records are inserted at the sentinel and only updateSalesDataCoordinates
\* writes coordinates, so if every write lands on the record it was resolved
\* for, each record of the store holds the sentinel or the lookup result of its
\* own city and state, also when an upload clears and repopulates the store
\* while a lookup is in flight.
C21_WriteLandsOnItsRecord ==
    \A k \in DOMAIN storage.map :
        AtSentinel(storage.map[k]) \/ OwnCoordinates(storage.map[k])

(***************************************************************************)
(* Jobs that end in error.                                                 *)
(***************************************************************************)
\* job j has called clearSalesData or createMultipleSalesData and has not yet
\* written its final status
WritingStore(j) == uploads[j].pc \in {"clearing", "inserting"}

\* the step takes job j to the error state
TurnsToError(j) ==
    /\ j \in DOMAIN uploadStatus'
    /\ uploadStatus'[j].status = "error"
    /\ (j \in DOMAIN uploadStatus => StatusOf(j) # "error")

\* C22: a job that ends in error has not modified the store: the step that
\* takes a job to error leaves the store's records and id counter alone and is
\* taken before the job's first store call, and a job that has made a store
\* call does not end in error.
C22_ErrorJobLeftStoreAlone ==
    [][\A j \in UploadIds :
          /\ TurnsToError(j) =>
                /\ storage' = storage
                /\ uploads[j].pc \in {"idle", "resume"}
          /\ WritingStore(j) =>
                /\ uploadStatus'[j].status # "error"
                /\ uploads'[j].pc \in {"clearing", "inserting", "done"}]_vars

\* a job has ended in error for want of valid rows while the store holds the
\* record another job inserted, and another has ended in error in the decoder
C22_Witness ==
    /\ requests.upload = 2
    /\ \E j \in DOMAIN uploadStatus :
          /\ StatusOf(j) = "error"
          /\ uploadStatus[j].error \in {NoValidData, DecoderMessage}
          /\ uploads[j].pc = "done"
          /\ lastInsertBy.upload = 3 - j
    /\ storage.map # << >>
    /\ storage.currentId = Len(storage.map) + 1

(***************************************************************************)
(* What a pass has done when it ends.                                      *)
(***************************************************************************)
\* the step in which pass p runs off the end of its for loop
PassEnds(p) == passes[p].pc # "done" /\ passes'[p].pc = "done"

\* the keys pass p has sent a lookup for
LookedUp(p) == {passes[p].lookups[k] : k \in DOMAIN passes[p].lookups}

\* C23: when a pass ends, every key it looked up that is in the cache (a lookup
\* for it succeeded) has its coordinates on every record of the store with that
\* city and state, whether or not that record's own lookup succeeded.
C23_SuccessReachesEveryRecordOfKey ==
    [][\A p \in DOMAIN passes :
          PassEnds(p) =>
              \A key \in LookedUp(p) \cap DOMAIN geocodingCache' :
                  \A k \in DOMAIN storage'.map :
                      CacheKey(storage'.map[k]) = key =>
                          /\ storage'.map[k].latitude = geocodingCache'[key].latitude
                          /\ storage'.map[k].longitude = geocodingCache'[key].longitude]_vars

\* the activations of updateCoordinatesInBackground a behaviour can start: one
\* per request at most
PassIds == 1..MaxRequests

\* every fetch comes back, with a result, without one or with an error, and
\* every timer of a pass fires
FairPassSpec ==
    /\ FairSpec
    /\ \A p \in PassIds : WF_vars(p \in DOMAIN passes /\ FetchReturn(p))
    /\ \A p \in PassIds : WF_vars(p \in DOMAIN passes /\ DelayTimer(p))

\* the step in which the lookup of item k of pass p comes back without a result
LookupFails(p, k) ==
    /\ passes[p].st[k] = "fetching"
    /\ passes'[p].pc # "done"
    /\ passes'[p].st[k] = "done"

\* C24: a lookup that fails or is empty changes neither the store nor the
\* cache and no other item of its pass, and the pass goes on: a pass ends only
\* when every one of its items, of every batch, has been processed, and every
\* pass ends.
C24_FailedLookupDoesNotStopPass ==
    /\ [][\A p \in {q \in DOMAIN passes : passes[q].pc # "done"} :
             /\ \A k \in DOMAIN passes[p].st :
                   LookupFails(p, k) =>
                       /\ storage' = storage
                       /\ geocodingCache' = geocodingCache
                       /\ passes'[p].pc \in {"batch", "batchDone"}
                       /\ passes'[p].items = passes[p].items
                       /\ \A o \in DOMAIN passes[p].st \ {k} :
                             passes'[p].st[o] = passes[p].st[o]
             /\ PassEnds(p) =>
                   \A k \in DOMAIN passes[p].st : passes[p].st[k] = "done"]_vars
    /\ \A p \in PassIds :
          (p \in DOMAIN passes) ~> (p \in DOMAIN passes /\ passes[p].pc = "done")

\* the lookup of the first record of a pass came back without a result (its
\* key was looked up and is not cached, the record is at the sentinel) and the
\* pass is in its second batch, whose record holds its coordinates
C24_Witness ==
    \E p \in DOMAIN passes :
        /\ passes[p].pc = "batch"
        /\ passes[p].i = GeocodeBatchSize
        /\ passes[p].st[1] = "done"
        /\ CacheKey(passes[p].items[1]) \in LookedUp(p)
        /\ CacheKey(passes[p].items[1]) \notin DOMAIN geocodingCache
        /\ AtSentinel(storage.map[1])
        /\ Len(storage.map) = GeocodeBatchSize + 1
        /\ ~AtSentinel(storage.map[GeocodeBatchSize + 1])

(***************************************************************************)
(* Store operations among concurrent activities.                           *)
(***************************************************************************)
\* the step in which job j runs createMultipleSalesData
JobInserts(j) == uploads[j].pc = "clearing" /\ uploads'[j].pc = "inserting"

\* C25: createMultipleSalesData runs from its first to its last mutation within
\* one step of one job, whatever else is in progress: the step appends one
\* record per item of the job's array, in order, under consecutive ids from the
\* counter on, leaves the records that were there as they were, and moves the
\* counter past the last id.
C25_BatchInsertIsOneStep ==
    [][\A j \in UploadIds :
          JobInserts(j) =>
              LET arr == uploads[j].salesDataArray
                  old == Len(storage.map)
              IN  /\ Len(storage'.map) = old + Len(arr)
                  /\ \A k \in 1..old : storage'.map[k] = storage.map[k]
                  /\ \A k \in 1..Len(arr) :
                        storage'.map[old + k] = WithDefaults(arr[k], storage.currentId + k - 1)
                  /\ storage'.currentId = storage.currentId + Len(arr)
                  /\ \A o \in UploadIds \ {j} : uploads'[o] = uploads[o]
                  /\ passes' = passes]_vars

\* a job has just inserted its two records under ids 1 and 2 while another job
\* is between two of its chunks
C25_Witness ==
    \E j \in UploadIds :
        /\ uploads[j].pc = "inserting"
        /\ Len(storage.map) = 2
        /\ storage.map[1].id = 1 /\ storage.map[2].id = 2
        /\ storage.currentId = 3
        /\ \E o \in UploadIds \ {j} : uploads[o].pc \in {"timer", "resume"}

(***************************************************************************)
(* The chunk loop of one job.                                              *)
(***************************************************************************)
\* the chunk size for a sheet of t rows, from the limits of the code
SizeOfChunk(t) ==
    IF t \div ChunkDivisor < ChunkMin THEN ChunkMin
    ELSE IF t \div ChunkDivisor > ChunkMax THEN ChunkMax
    ELSE t \div ChunkDivisor

\* the smaller of n rows and all the rows of a sheet of t
RowsUpTo(n, t) == IF n < t THEN n ELSE t

\* the records of the accepted rows among the first n rows of a file, in order
AcceptedAmong(file, n) ==
    LET accepted == SelectSeq(SubSeq(RowsOf(file), 1, n), Accepts)
    IN  [k \in 1..Len(accepted) |-> NormalizeRow(accepted[k]).data]

\* the step in which job j normalizes a chunk
ChunkBegins(j) == uploads'[j].pc = "timer" /\ uploads[j].pc \in {"idle", "resume"}

\* C26: the chunks of a job are normalized in order with a suspension after
\* each.  The step that begins the chunk after the first N finds processedRows
\* at min(N * chunkSize, totalRows) and comes after a timer of the job has
\* fired with the promise-job queue empty; it leaves the records of the rows up
\* to the end of its chunk, in order.  While the job waits for that timer a
\* status query reports the progress reached.
C26_ChunksInOrderWithYield ==
    [][\A j \in UploadIds :
          /\ ChunkBegins(j) =>
                LET t == uploads'[j].totalRows
                    size == SizeOfChunk(t)
                    N == uploads'[j].i \div size
                IN  /\ uploads'[j].i = N * size
                    /\ N * size < t
                    /\ IF N = 0
                       THEN uploads[j].pc = "idle" /\ j \notin DOMAIN uploadStatus
                       ELSE /\ uploads[j].pc = "resume"
                            /\ uploads[j].i = (N - 1) * size
                            /\ uploadStatus[j].processedRows = RowsUpTo(N * size, t)
                    /\ uploadStatus'[j].processedRows = RowsUpTo((N + 1) * size, t)
                    /\ uploads'[j].salesDataArray
                          = AcceptedAmong(uploads'[j].file, RowsUpTo((N + 1) * size, t))
          /\ (uploads[j].pc = "timer" /\ uploads'[j].pc # "timer") =>
                /\ microtasks = << >>
                /\ uploads'[j].pc = "resume"
                /\ uploads'[j].i = uploads[j].i
                /\ uploadStatus' = uploadStatus
          /\ uploads[j].pc = "timer" =>
                /\ UploadStatusRequest(uploadStatus, j).code = 200
                /\ UploadStatusRequest(uploadStatus, j).status = "processing"
                /\ UploadStatusRequest(uploadStatus, j).progressPercent
                      = RoundPercent(RowsUpTo(uploads[j].i + SizeOfChunk(uploads[j].totalRows),
                                              uploads[j].totalRows),
                                     uploads[j].totalRows)]_vars

\* a job of more rows than one chunk waits for the timer after its first chunk
\* with processedRows at the chunk size, and another has done its second chunk
C26_Witness ==
    /\ \E j \in UploadIds :
          /\ uploads[j].pc = "timer"
          /\ uploads[j].i = 0
          /\ uploads[j].totalRows > SizeOfChunk(uploads[j].totalRows)
          /\ uploadStatus[j].processedRows = SizeOfChunk(uploads[j].totalRows)
    /\ \E j \in UploadIds :
          /\ uploads[j].pc = "timer"
          /\ uploads[j].i = SizeOfChunk(uploads[j].totalRows)
          /\ uploadStatus[j].processedRows = uploads[j].totalRows

\* C27: a row that fails does not abort the batch.  A job over, of a sheet
\* with at least one row that is accepted on its own, is completed and the
\* store holds the records of exactly those rows in the order of the sheet,
\* whatever rows fail before, between or after them; a job of a sheet with no
\* such row is in error.
C27_FailedRowDoesNotAbort ==
    (1 \in DOMAIN uploadStatus /\ uploads[1].pc = "done") =>
        LET file == uploads[1].file
            valid == AcceptedAmong(file, SheetLen(file.runs))
        IN  IF valid = << >>
            THEN StatusOf(1) = "error"
            ELSE /\ StatusOf(1) = "completed"
                 /\ uploadStatus[1].insertedRecords = Len(valid)
                 /\ Len(storage.map) = Len(valid)
                 /\ \A k \in 1..Len(valid) : storage.map[k] = WithDefaults(valid[k], k)

\* a job has completed with one record, that of the second row of a sheet whose
\* first row fails the schema; (the same holds of a first row of a year that is
\* not allowed and of one without a maker)
C27_Witness ==
    /\ 1 \in DOMAIN uploadStatus
    /\ StatusOf(1) = "completed"
    /\ RowsOf(uploads[1].file) = <<RowTextMonth, RowGoa>>
    /\ ~Accepts(RowTextMonth) /\ ~Accepts(RowYear2021) /\ ~Accepts(RowBlankMaker)
    /\ Len(storage.map) = 1
    /\ storage.map[1].city = <<"Q">>

(***************************************************************************)
(* Month labels in any letter case.                                        *)
(***************************************************************************)
monthsTitle ==
    <<"Jan", "Feb", "Mar", "Apr", "May", "Jun", "Jul", "Aug", "Sep", "Oct", "Nov", "Dec">>

\* labels of month k in upper, lower and title case
MonthLabels(k) == {months[k], monthsLower[k], monthsTitle[k]}

\* the value of month k of a row under whichever of these labels it has a
\* number: 0 when it has none
CaseBlindValue(row, k) ==
    LET present == {c \in MonthLabels(k) \cap DOMAIN row : row[c].t = "num" /\ row[c].v # 0}
    IN  IF present = {} THEN 0 ELSE row[CHOOSE c \in present : TRUE].v

RECURSIVE CaseBlindSum(_, _)
CaseBlindSum(row, k) ==
    IF k = 0 THEN 0 ELSE CaseBlindSum(row, k - 1) + CaseBlindValue(row, k)

\* the rows whose months are numbers, each under one label
NumericMonths(row) ==
    \A k \in 1..12 :
        /\ \A c \in MonthLabels(k) \cap DOMAIN row : row[c].t = "num"
        /\ Cardinality(MonthLabels(k) \cap DOMAIN row) <= 1

\* C28: the year total of every accepted row counts each month's column
\* whatever the letter case of its label: in a completed job the sales of the
\* row's year are the sum of the row's month values under upper-, lower- or
\* title-case labels.
C28_MonthLabelsInAnyCase ==
    (1 \in DOMAIN uploadStatus /\ StatusOf(1) = "completed") =>
        LET accepted == SelectSeq(RowsOf(uploads[1].file), Accepts)
        IN  /\ Len(storage.map) = Len(accepted)
            /\ \A k \in 1..Len(accepted) :
                  NumericMonths(accepted[k]) =>
                      SalesOf(storage.map[k])[YearOf(accepted[k]).v]
                          = CaseBlindSum(accepted[k], 12)

(***************************************************************************)
(* The option lists of a response.                                         *)
(***************************************************************************)
\* s comes strictly before t in the order of code units: they agree on their
\* first n characters and then s ends, or has the smaller character
Before(s, t) ==
    \E n \in 0..Len(s) :
        /\ n <= Len(t)
        /\ SubSeq(s, 1, n) = SubSeq(t, 1, n)
        /\ \/ n = Len(s) /\ n < Len(t)
           \/ n < Len(s) /\ n < Len(t) /\ CharCode(s[n + 1]) < CharCode(t[n + 1])

\* C29: each of the four option lists of a response holds no empty value and
\* is strictly ascending in the order of code units, hence without duplicate,
\* whatever the store holds and whatever the body selects.
C29_OptionsSortedAndDistinct ==
    response.sent =>
        \A name \in Dimensions :
            LET list == response.availableOptions[name]
            IN  /\ \A i \in DOMAIN list : list[i] # Empty
                /\ \A i, k \in DOMAIN list : i < k =>
                      /\ list[i] # list[k]
                      /\ Before(list[i], list[k])

\* a response lists two makers in ascending order from a store that holds them
\* in the other order, with a maker twice and with a record of no district
C29_Witness ==
    /\ response.sent
    /\ response.availableOptions["makers"] = <<<<"A">>, <<"B">>>>
    /\ Len(storage.map) = 3
    /\ storage.map[1].maker = <<"B">>
    /\ storage.map[2].maker = <<"A">> /\ storage.map[3].maker = <<"A">>
    /\ \E k \in DOMAIN storage.map : storage.map[k].district = Empty
    /\ Len(response.availableOptions["districts"]) = 2

(***************************************************************************)
(* The error field of a job status.                                        *)
(***************************************************************************)
\* the status object has an error property
HasError(status) == "error" \in DOMAIN status

\* C30: in every reachable state the status of every job has an error field
\* exactly when its status is error: a processing or completed job carries no
\* error message and a job in error carries one.
C30_ErrorFieldIffErrorStatus ==
    \A j \in DOMAIN uploadStatus :
        /\ HasError(uploadStatus[j]) <=> StatusOf(j) = "error"
        /\ StatusOf(j) = "error" => uploadStatus[j].error \in {NoValidData, DecoderMessage}

\* one job is in error with its message and another has completed and one is
\* processing or completed without an error field
C30_Witness ==
    /\ \E j \in DOMAIN uploadStatus :
          StatusOf(j) = "error" /\ uploadStatus[j].error = NoValidData
    /\ \E j \in DOMAIN uploadStatus :
          StatusOf(j) = "completed" /\ ~HasError(uploadStatus[j])

(***************************************************************************)
(* The counters of a job and the progress a status query reports.          *)
(***************************************************************************)
\* C31: in every reachable state and for every job, processedRows lies between
\* 0 and totalRows and insertedRecords between 0 and totalRows, the
\* progressPercent a status query reports lies between 0 and 100, and it is 100
\* for a completed job.
C31_ProgressWithinBounds ==
    \A j \in DOMAIN uploadStatus :
        /\ 0 <= uploadStatus[j].processedRows
        /\ uploadStatus[j].processedRows <= uploadStatus[j].totalRows
        /\ 0 <= uploadStatus[j].insertedRecords
        /\ uploadStatus[j].insertedRecords <= uploadStatus[j].totalRows
        /\ UploadStatusRequest(uploadStatus, j).progressPercent \in 0..100
        /\ StatusOf(j) = "completed" =>
              UploadStatusRequest(uploadStatus, j).progressPercent = 100

\* a job has completed with fewer records than rows and reports 100, a job is
\* processing with some of its rows still to read, and a query for a job
\* without rows would report 0
C31_Witness ==
    /\ \E j \in DOMAIN uploadStatus :
          /\ StatusOf(j) = "completed"
          /\ 0 < uploadStatus[j].insertedRecords
          /\ uploadStatus[j].insertedRecords < uploadStatus[j].totalRows
          /\ UploadStatusRequest(uploadStatus, j).progressPercent = 100
    /\ \E j \in DOMAIN uploadStatus :
          /\ StatusOf(j) = "processing"
          /\ 0 < uploadStatus[j].processedRows
          /\ uploadStatus[j].processedRows < uploadStatus[j].totalRows
    /\ UploadStatusRequest(<<Registered>>, 1).progressPercent = 0

(***************************************************************************)
(* The client's pollUploadStatus, for the upload with id 1, next to the    *)
(* job it polls.                                                           *)
(***************************************************************************)
maxAttempts == 1800

\* Reschedule without the limit on attempts
RescheduleAlways(attempts) == TRUE

\* attempts < maxAttempts
Reschedule(attempts) == attempts < maxAttempts

\* what axios.get of the status route can come to: the route's answer, or a
\* request that fails
PollAnswers == {"answered", "fails"}

\* The continuation of `await axios.get(...)` in poll, with the poller at pl and
\* the reply of the route (code 0 for a request that failed): a status other
\* than 200 makes axios throw.
Poll(pl, reply) ==
    IF reply.code = 200
    THEN IF reply.status = "completed"
         THEN [pl EXCEPT !.pc = "stopped", !.seen = "completed"]
         ELSE IF reply.status = "error"
         THEN [pl EXCEPT !.pc = "stopped", !.seen = "error"]
         ELSE IF reply.status = "processing" /\ Reschedule(pl.attempts)
         THEN [pc |-> "timer", attempts |-> pl.attempts + 1, seen |-> "processing"]
         ELSE [pl EXCEPT !.pc = "stopped", !.seen = "processing"]
    ELSE IF Reschedule(pl.attempts)
         THEN [pc |-> "timer", attempts |-> pl.attempts + 1, seen |-> "failed"]
         ELSE [pl EXCEPT !.pc = "stopped", !.seen = "failed"]

OnlyThePoll ==
    UNCHANGED <<storage, uploadStatus, geocodingCache, apiKey, uploads, passes,
                microtasks, requests, lastInsertBy, lastUpdates, response>>

\* onSuccess of the upload mutation: pollUploadStatus(data.uploadId) and its
\* first poll(), up to the await
PollStart ==
    /\ poll.pc = "idle"
    /\ requests.upload >= 1
    /\ poll' = [poll EXCEPT !.pc = "waiting"]
    /\ OnlyThePoll

\* the request of a poll settles: the server serves it between two macrotasks,
\* or it fails
PollReturn ==
    /\ poll.pc = "waiting"
    /\ \E answer \in PollAnswers :
          IF answer = "answered"
          THEN MacrotaskTurn /\ poll' = Poll(poll, UploadStatusRequest(uploadStatus, 1))
          ELSE poll' = Poll(poll, [code |-> 0])
    /\ OnlyThePoll

\* setTimeout(poll, ..) fires: the next poll(), up to the await
PollTimer ==
    /\ poll.pc = "timer"
    /\ poll' = [poll EXCEPT !.pc = "waiting"]
    /\ OnlyThePoll

\* the files of the polled upload: one the decoder rejects, one that completes
\* and one of two chunks without a valid row
PollFiles == {Corrupt, Sheet(<<RowPune>>, 0), Sheet(<<RowPartial>>, PadRows)}

InitPoll == Init /\ ~apiKey

NextPoll ==
    \/ \E file \in PollFiles : requests.upload = 0 /\ UploadExcel(1, file)
    \/ ChunkTimer(1)
    \/ JobResume(1)
    \/ JobInsert(1)
    \/ JobComplete(1)
    \/ PollStart
    \/ PollReturn
    \/ PollTimer

SpecPoll == InitPoll /\ [][NextPoll]_vars

\* every request of the poller settles and every timer of the poller fires
FairPollSpec == SpecPoll /\ WF_vars(PollReturn) /\ WF_vars(PollTimer)

\* C32: polling for one upload always stops.  Once the poller has seen completed
\* or error, or has stopped, it does nothing more; every further poll is paid
\* for by one attempt, attempts never exceed maxAttempts, and the poller, once
\* started, comes to a stop whether its polls return processing or fail.
C32_PollingStops ==
    /\ [][/\ (poll.seen \in {"completed", "error"} \/ poll.pc = "stopped") => poll' = poll
          /\ (poll'.pc = "timer" /\ poll.pc # "timer") =>
                /\ poll'.attempts = poll.attempts + 1
                /\ poll.attempts < maxAttempts
                /\ poll'.seen \in {"processing", "failed"}
          /\ poll'.pc # "timer" => poll'.attempts = poll.attempts
          /\ poll'.seen \in {"completed", "error"} => poll'.pc = "stopped"]_vars
    /\ [](poll.attempts <= maxAttempts)
    /\ (poll.pc # "idle") ~> (poll.pc = "stopped")

\* the poller has given up after maxAttempts reschedules with the job still
\* processing
C32_Witness ==
    /\ poll.pc = "stopped"
    /\ poll.attempts = maxAttempts
    /\ poll.seen \in {"processing", "failed"}
    /\ StatusOf(1) = "processing"

=============================================================================
